---- MODULE Spec2Model ----
(***************************************************************************)
(* Model of the data-access layer of fantasy_football_multi_league.py:     *)
(* yahoo_api_call (the access gateway), refresh_yahoo_token (the           *)
(* credential refresher), the tool wrappers ff_refresh_token and           *)
(* ff_clear_cache, and the two collaborators imported from                 *)
(* src.yahoo_api_utils (rate_limiter, response_cache).                     *)
(*                                                                         *)
(* Every asyncio task is a process p.  An action is the code a task runs   *)
(* between two points where it can be suspended on the network or on the   *)
(* rate limiter.  Time is relative: a cache entry carries the ticks it     *)
(* has left, a rate-window entry carries its age.                          *)
(***************************************************************************)
EXTENDS Integers, Sequences, FiniteSets, TLC

VARIABLES
    pc,                  \* where each task is
    op,                  \* what the task runs: "none", "call", "refresh_tool", "clear_tool"
    endpoint,            \* yahoo_api_call argument
    use_cache,           \* yahoo_api_call argument
    retry_on_auth_fail,  \* yahoo_api_call argument of the current invocation
    response,            \* the upstream response the invocation received last
    refresh_token,       \* refresh_yahoo_token local, read at its start
    exchange,            \* the grant exchange served for the task, its answer in flight
    result,              \* what the task returned or raised
    log,                 \* gateway steps of the current invocation, in order
    refreshes,           \* refresh_yahoo_token invocations of the logical call
    requests,            \* upstream requests of the logical call
    cache,               \* response_cache: endpoint -> [payload, ttl]
    window,              \* rate_limiter: ages of the calls in the rolling window
    waiters,             \* rate_limiter: tasks suspended in acquire(), arrival order
    YAHOO_ACCESS_TOKEN,  \* module global
    environ,             \* os.environ
    exchanges,           \* token endpoint: grant exchanges served so far
    server_refresh,      \* token endpoint: the refresh credential it issued last
    applied,             \* serials of the exchanges whose answer a refresh applied with success
    served,              \* a successful cached call: endpoint, payload, ttl left
    stored,              \* observer: endpoint -> [payload, age] of the stores younger than the TTL
    frame,               \* the tool operation each task runs: its arguments and locals
    LEAGUES_CACHE,       \* module global
    invocations,         \* tool invocations the host has made so far
    headers              \* the credential in the Authorization header of each task's request:
                         \* in flight, or rejected with 401 while the call refreshes

procVars == <<pc, op, endpoint, use_cache, retry_on_auth_fail, response,
              refresh_token, exchange, result, log, refreshes, requests,
              headers>>
tokenVars == <<YAHOO_ACCESS_TOKEN, environ, exchanges, server_refresh, applied>>
toolVars == <<frame, LEAGUES_CACHE, invocations>>
vars == <<procVars, cache, window, waiters, tokenVars, served, stored, toolVars>>

----------------------------------------------------------------------------
(* Bounds of the model *)

NumProcs == 2
MaxExchanges == 2
GatewayExchanges == 1
MaxToolRuns == 2

Procs == 1..NumProcs

----------------------------------------------------------------------------
(* Values *)

\* Endpoint strings, as character sequences (ff_clear_cache matches substrings).
Endpoints == { <<"a", "b">>, <<"b", "c">> }

\* JSON payloads the upstream returns with HTTP 200.
Payloads == { [fantasy_content |-> "v1"], [fantasy_content |-> "v2"] }

\* Python None for a credential; a credential is <<kind, serial>>.
NoToken == << >>
AccessToken(k) == <<"access", k>>
RefreshToken(k) == <<"refresh", k>>

\* text[:n] of the three error excerpts
AUTH_TEXT_LIMIT == 200
ERROR_TEXT_LIMIT == 200
DETAILS_LIMIT == 200
DEFAULT_EXPIRES_IN == 3600

\* A response body: the first len characters of the character stream `tag`.
Text(tag, len) == [tag |-> tag, len |-> len]
Bodies == { Text("x", ERROR_TEXT_LIMIT - 1), Text("y", ERROR_TEXT_LIMIT + 1) }

\* Python text[:n]
Slice(text, n) == [text EXCEPT !.len = IF text.len < n THEN text.len ELSE n]

LongBody == Text("y", ERROR_TEXT_LIMIT + 1)
Responses == [status : {200}, json : Payloads]
                 \cup [status : {401}, text : Bodies]
                 \cup [status : {500}, text : {LongBody}]
NoResponse == [status |-> 0]

NoResult == [kind |-> "none"]
Return(v) == [kind |-> "return", value |-> v]
Raise(exc, msg) == [kind |-> "raise", exc |-> exc, msg |-> msg]

----------------------------------------------------------------------------
(* refresh_yahoo_token *)

\* Python dict.get(key, default); a dict is a function on the keys it has.
Get(d, key, default) == IF key \in DOMAIN d THEN d[key] ELSE default

\* bool(v) of an environment value: unset (None) and "" are false.
Truthy(v) == v # NoToken

\* Line 140: round(expires_in / 3600, 1), in tenths of an hour.  round()
\* rounds the double that the division yields, not the rational: a quotient
\* halfway between two tenths, a/20 with a odd, goes the way its double
\* lies, and to the even tenth only when the double is exact.  With
\* 2^e <= a/20 < 2^(e+1), a/20 is a * 2^(50-e) / 5 in units of the last of
\* the 53 bits; the division rounds to nearest, so the double is greater
\* than a/20 when the numerator a * 2^(50-e) mod 5 of the fraction is 3 or
\* 4, less when it is 1 or 2, and a/20 itself when it is 0.
RoundTenths(n) ==
    LET pow2(k) == IF k = 0 THEN 1
                   ELSE <<2, 4, 8, 16, 32, 64, 128, 256, 512, 1024, 2048, 4096,
                          8192, 16384, 32768, 65536, 131072, 262144, 524288,
                          1048576, 2097152>>[k]
        exponent(a) ==
            CHOOSE e \in -5..20 :
                IF e >= 0 THEN 20 * pow2(e) <= a /\ a < 40 * pow2(e)
                ELSE 20 <= a * pow2(-e) /\ a * pow2(-e) < 40
        fraction(a) == ((a % 5) * pow2((50 - exponent(a)) % 4)) % 5
        positive(m) ==
            LET q == m \div 360
                r == m % 360
            IN  IF 2 * r < 360 THEN q
                ELSE IF 2 * r > 360 THEN q + 1
                ELSE IF fraction(2 * q + 1) >= 3 THEN q + 1
                ELSE IF fraction(2 * q + 1) >= 1 THEN q
                ELSE q + (q % 2)
    IN  IF n >= 0 THEN positive(n) ELSE 0 - positive(0 - n)

RefreshError(msg) == [status |-> "error", message |-> msg]

\* Lines 100-108: the credentials read at the start, and the early return.
HasCredentials(env) ==
    /\ Truthy(env.YAHOO_CONSUMER_KEY)
    /\ Truthy(env.YAHOO_CONSUMER_SECRET)
    /\ Truthy(env.YAHOO_REFRESH_TOKEN)

MissingCredentialsResult == RefreshError(<<"Missing credentials in environment">>)

\* Caught without the except clause: the exception escapes.
Uncaught(exc, tok, env) ==
    [raised |-> TRUE, token |-> tok, environ |-> env,
     result |-> RefreshError(<<"Error refreshing token: ", exc>>)]

\* Lines 149-153: the except clause turns an exception into an error record;
\* what was stored before the exception stays stored.
Caught(exc, tok, env) ==
    [raised |-> FALSE, token |-> tok, environ |-> env,
     result |-> RefreshError(<<"Error refreshing token: ", exc>>)]

\* StoreRefresh that never stores the answer's refresh credential.
StoreRefreshNever(env, new_refresh_token, rt) == env

\* Lines 133-134: the refresh credential is stored if the answer carries one
\* that differs from the one this call read.
StoreRefresh(env, new_refresh_token, rt) ==
    IF new_refresh_token # rt
    THEN [env EXCEPT !.YAHOO_REFRESH_TOKEN = new_refresh_token]
    ELSE env

\* Lines 119-153: what refresh_yahoo_token does with the token endpoint's
\* answer `resp`, having read `rt` as its refresh_token: the value it returns
\* (or the exception it lets escape), the new global and the new environment.
\* The statements between the answer and the return run without suspension.
ApplyTokenResponse(resp, rt, tok, env) ==
    IF resp.kind = "exception" THEN Caught("ClientError", tok, env)
    ELSE IF resp.kind = "http_error" THEN
        [raised |-> FALSE, token |-> tok, environ |-> env,
         result |-> [status |-> "error",
                     message |-> <<"Failed to refresh token: ", resp.status>>,
                     details |-> Slice(resp.text, DETAILS_LIMIT)]]
    ELSE IF resp.kind = "bad_json" THEN Caught("JSONDecodeError", tok, env)
    ELSE
        LET token_data == resp.json
            new_access_token == Get(token_data, "access_token", NoToken)
            new_refresh_token == Get(token_data, "refresh_token", rt)
            expires_in == Get(token_data, "expires_in", <<"int", DEFAULT_EXPIRES_IN>>)
            env1 == [env EXCEPT !.YAHOO_ACCESS_TOKEN = new_access_token]
            env2 == StoreRefresh(env1, new_refresh_token, rt)
        IN  IF new_access_token = NoToken THEN
                \* os.environ[...] = None raises TypeError after the global is set
                Caught("TypeError", new_access_token, env)
            ELSE IF new_refresh_token = NoToken THEN
                \* a null refresh_token: TypeError after the access token is stored
                Caught("TypeError", new_access_token, env1)
            ELSE IF expires_in[1] # "int" THEN
                \* expires_in / 3600 raises TypeError after both stores
                Caught("TypeError", new_access_token, env2)
            ELSE
                [raised |-> FALSE, token |-> new_access_token, environ |-> env2,
                 result |-> [status |-> "success",
                             message |-> <<"Token refreshed successfully">>,
                             expires_in |-> expires_in[2],
                             expires_in_hours_x10 |-> RoundTenths(expires_in[2])]]

----------------------------------------------------------------------------
(* The token endpoint (external) *)

EmptyDict == [k \in {} |-> NoToken]

\* The JSON object of a 200 answer to exchange number k presenting rt.
TokenData(shape, k, rt) ==
    (IF shape.access = "issued"
        THEN [x \in {"access_token"} |-> AccessToken(k)] ELSE EmptyDict)
    @@ (IF shape.refresh = "rotated"
        THEN [x \in {"refresh_token"} |-> RefreshToken(k)]
        ELSE IF shape.refresh = "same"
        THEN [x \in {"refresh_token"} |-> rt]
        ELSE IF shape.refresh = "null"
        THEN [x \in {"refresh_token"} |-> NoToken] ELSE EmptyDict)
    @@ (IF shape.expires = "int"
        THEN [x \in {"expires_in"} |-> <<"int", 1800>>]
        ELSE IF shape.expires = "str"
        THEN [x \in {"expires_in"} |-> <<"str", 0>>] ELSE EmptyDict)

TokenShapes == [access : {"absent", "issued"},
                refresh : {"absent", "null", "same", "rotated"},
                expires : {"absent", "int", "str"}]

\* Answers that are no JSON object: a network failure or timeout, a non-200
\* status, a body that is not JSON.
TokenFailures == { [kind |-> "exception"], [kind |-> "bad_json"] }
                   \cup [kind : {"http_error"}, status : {400}, text : {LongBody}]

NoExchange == [serial |-> 0, rotated |-> FALSE]

----------------------------------------------------------------------------
(* response_cache and rate_limiter (src.yahoo_api_utils) *)

DEFAULT_TTL == 2
MAX_CALLS == 1
WINDOW_SECONDS == 2

\* response_cache.get(key): the payload of an unexpired entry, else a miss.
CacheHit(c, key) == key \in DOMAIN c /\ c[key].ttl > 0
CacheGet(c, key) == c[key].payload

\* A set that writes the value under every key.
CacheSetAll(c, key, value) ==
    [k \in DOMAIN c \cup {key} |-> [payload |-> value, ttl |-> DEFAULT_TTL]]

\* response_cache.set(key, value): expiry is capture time + default TTL.
CacheSet(c, key, value) ==
    [k \in DOMAIN c \cup {key} |->
        IF k = key THEN [payload |-> value, ttl |-> DEFAULT_TTL] ELSE c[k]]

\* `pattern in key` for strings as character sequences.
Contains(key, pattern) ==
    \E i \in 0..(Len(key) - Len(pattern)) :
        \A j \in 1..Len(pattern) : key[i + j] = pattern[j]

\* response_cache.clear(pattern): None clears everything.
ClearPatterns == { <<"a">>, <<"b">>, <<"c", "a">> }
NoPattern == <<"None">>
CacheClear(c, pattern) ==
    IF pattern = NoPattern THEN [k \in {} |-> 0]
    ELSE [k \in {x \in DOMAIN c : ~Contains(x, pattern)} |-> c[k]]

\* A cache whose entries never expire.
CacheAgeNever(c) == c

\* One tick of time on the cache: entries age, expired ones are evicted.
CacheAge(c) ==
    [k \in {x \in DOMAIN c : c[x].ttl > 1} |-> [c[k] EXCEPT !.ttl = @ - 1]]

\* One tick of time on the rolling window: calls older than the window leave.
WindowAge(w) == SelectSeq([i \in 1..Len(w) |-> w[i] + 1], LAMBDA a : a < WINDOW_SECONDS)

\* rate_limiter.acquire() returns once one more call fits the window.
HasBudget(w) == Len(w) < MAX_CALLS


----------------------------------------------------------------------------
(* yahoo_api_call *)

\* AuthFailed and ApiError without the [:200].
AuthFailedWhole(text) ==
    Raise("Exception", <<"Yahoo API auth failed and token refresh failed: ", text>>)
ApiErrorWhole(status, text) ==
    Raise("Exception", <<"Yahoo API error ", status, ": ", text>>)

\* Lines 89-90 and 92-93: the two exceptions yahoo_api_call raises.
AuthFailed(text) ==
    Raise("Exception", <<"Yahoo API auth failed and token refresh failed: ",
                         Slice(text, AUTH_TEXT_LIMIT)>>)
ApiError(status, text) ==
    Raise("Exception", <<"Yahoo API error ", status, ": ",
                         Slice(text, ERROR_TEXT_LIMIT)>>)
TimedOut == Raise("TimeoutError", << >>)


\* Lookup that never finds anything.
LookupNever(uc, c, e) == FALSE

\* Lines 59-62: the invocation returns the cached payload.
Lookup(uc, c, e) == uc /\ CacheHit(c, e)

\* Permit without the rate limiter.
PermitAlways(q, w) == TRUE

\* Line 65: rate_limiter.acquire() returns without suspending the task when
\* nobody is queued and the window has budget.
Permit(q, w) == q = << >> /\ HasBudget(w)

\* StoresResponse without the `if use_cache`.
StoresAlways(uc) == TRUE

\* Line 78: the 200 payload is stored.
StoresResponse(uc) == uc

\* RetryArgument left at the default of the parameter.
RetryArgumentKept == TRUE

\* Line 86: retry_on_auth_fail of the retry.
RetryArgument == FALSE

\* The steps an invocation logs before its first suspension.
LookupLog(uc) == IF uc THEN <<"lookup">> ELSE << >>
RequestLog == <<"acquire", "request">>

NoServed == [endpoint |-> << >>, ttl |-> 0]
Served(e, payload, ttl) == [endpoint |-> e, payload |-> payload, ttl |-> ttl]

\* The observer's record of the stores (response_cache.set, line 79) that are
\* younger than the TTL and were not cleared since: what was stored under each
\* endpoint and how long ago.
Store(s, e, payload) ==
    [k \in DOMAIN s \cup {e} |->
        IF k = e THEN [payload |-> payload, age |-> 0] ELSE s[k]]
Forget(s, pattern) ==
    IF pattern = NoPattern THEN [k \in {} |-> 0]
    ELSE [k \in {x \in DOMAIN s : ~Contains(x, pattern)} |-> s[k]]
Older(s) ==
    [k \in {x \in DOMAIN s : s[x].age + 1 < DEFAULT_TTL} |->
        [s[k] EXCEPT !.age = @ + 1]]

\* The observer follows one successful cached call: the one that just
\* completed, or an earlier one whose TTL has not elapsed.
Observed(s, call) == {call} \cup (IF s.ttl > 0 THEN {s} ELSE {})

\* Lines 54-74: an invocation of yahoo_api_call(e, retry, uc) by task p up to
\* its first suspension.  The cache is looked up (if enabled); a hit returns.
\* On a miss the task calls rate_limiter.acquire(): with budget and nobody
\* queued it returns at once and the request is sent; otherwise the task
\* queues.  `sent` is the number of requests the logical call has issued.
EnterCall(p, e, uc, retry, sent) ==
    LET hit == Lookup(uc, cache, e)
        go == ~hit /\ Permit(waiters, window)
    IN  /\ endpoint' = [endpoint EXCEPT ![p] = e]
        /\ use_cache' = [use_cache EXCEPT ![p] = uc]
        /\ retry_on_auth_fail' = [retry_on_auth_fail EXCEPT ![p] = retry]
        /\ log' = [log EXCEPT ![p] =
                     LookupLog(uc) \o (IF go THEN RequestLog ELSE << >>)]
        /\ pc' = [pc EXCEPT ![p] =
                     IF hit THEN "done" ELSE IF go THEN "request" ELSE "acquire"]
        /\ result' = [result EXCEPT ![p] =
                        IF hit THEN Return(CacheGet(cache, e)) ELSE NoResult]
        /\ IF hit
           THEN served' \in Observed(served,
                                Served(e, CacheGet(cache, e), cache[e].ttl))
           ELSE served' = served
        /\ waiters' = IF hit \/ go THEN waiters ELSE Append(waiters, p)
        /\ window' = IF go THEN Append(window, 0) ELSE window
        /\ requests' = [requests EXCEPT ![p] = IF go THEN sent + 1 ELSE sent]

\* Lines 67-71: the headers after an invocation entered by EnterCall.  If
\* acquire() returned at once the request is sent in the same step, and its
\* Authorization header carries the global's value `tok` of that moment.
Carry(p, tok) ==
    IF pc'[p] = "request" THEN [headers EXCEPT ![p] = tok]
    ELSE headers

\* A caller invokes yahoo_api_call(e, use_cache=uc): a new logical call.
StartCall(p, e, uc) ==
    /\ pc[p] = "idle"
    /\ op' = [op EXCEPT ![p] = "call"]
    /\ EnterCall(p, e, uc, TRUE, 0)
    /\ headers' = Carry(p, YAHOO_ACCESS_TOKEN)
    /\ UNCHANGED <<response, refresh_token, exchange, refreshes, cache, tokenVars>>
    /\ UNCHANGED <<stored, toolVars>>

\* Lines 65-74: acquire() returns to a queued task once budget frees up, in
\* arrival order; the request is sent.
Acquire(p) ==
    /\ pc[p] = "acquire"
    /\ waiters # << >> /\ Head(waiters) = p
    /\ HasBudget(window)
    /\ window' = Append(window, 0)
    /\ waiters' = Tail(waiters)
    /\ requests' = [requests EXCEPT ![p] = @ + 1]
    /\ log' = [log EXCEPT ![p] = @ \o RequestLog]
    /\ pc' = [pc EXCEPT ![p] = "request"]
    /\ headers' = [headers EXCEPT ![p] = YAHOO_ACCESS_TOKEN]
    /\ UNCHANGED <<op, endpoint, use_cache, retry_on_auth_fail, response,
                   refresh_token, exchange, result, refreshes, cache,
                   tokenVars, served>>
    /\ UNCHANGED <<stored, toolVars>>

\* Lines 75-80: the upstream answers 200.
Respond200(p, r) ==
    /\ pc[p] = "request"
    /\ r.status = 200
    /\ IF StoresResponse(use_cache[p])
       THEN /\ cache' = CacheSet(cache, endpoint[p], r.json)
            /\ log' = [log EXCEPT ![p] = @ \o <<"store">>]
       ELSE UNCHANGED <<cache, log>>
    /\ IF use_cache[p]
       THEN served' \in Observed(served,
                            Served(endpoint[p], r.json, DEFAULT_TTL))
       ELSE served' = served
    /\ response' = [response EXCEPT ![p] = r]
    /\ result' = [result EXCEPT ![p] = Return(r.json)]
    /\ pc' = [pc EXCEPT ![p] = "done"]
    /\ UNCHANGED <<op, endpoint, use_cache, retry_on_auth_fail,
                   refresh_token, exchange, refreshes, requests,
                   window, waiters, tokenVars>>
    /\ stored' = IF StoresResponse(use_cache[p])
                 THEN Store(stored, endpoint[p], r.json) ELSE stored
    /\ UNCHANGED toolVars
    /\ headers' = [headers EXCEPT ![p] = NoToken]

\* Lines 88-90: the refresh did not succeed; `text = await response.text()`
\* and the raise.  The await is in no try.  It ends in one of three ways:
\* the task suspends until the body of the 401 answer is read ("waits"), the
\* body is read and the call raises the auth failure ("read"), or the read
\* ends with TimeoutError, which escapes ("timeout").
ReadText(p, text, end) ==
    IF end = "waits"
    THEN /\ pc' = [pc EXCEPT ![p] = "text"]
         /\ UNCHANGED <<result, headers>>
    ELSE /\ result' = [result EXCEPT ![p] =
                          IF end = "read" THEN AuthFailed(text) ELSE TimedOut]
         /\ pc' = [pc EXCEPT ![p] = "failed"]
         /\ headers' = [headers EXCEPT ![p] = NoToken]

\* Lines 81-83 and 100-117: the upstream answers 401 to an invocation that may
\* retry; refresh_yahoo_token starts, and either returns at once for want of
\* credentials (lines 87-90 follow) or posts the grant exchange.
Respond401(p, r) ==
    /\ pc[p] = "request"
    /\ r.status = 401 /\ retry_on_auth_fail[p]
    /\ refreshes' = [refreshes EXCEPT ![p] = @ + 1]
    /\ response' = [response EXCEPT ![p] = r]
    /\ IF HasCredentials(environ)
       THEN /\ refresh_token' = [refresh_token EXCEPT ![p] = environ.YAHOO_REFRESH_TOKEN]
            /\ pc' = [pc EXCEPT ![p] = "refresh"]
            /\ UNCHANGED <<result, headers>>
       ELSE /\ \E end \in {"waits", "read", "timeout"} : ReadText(p, r.text, end)
            /\ UNCHANGED refresh_token
    /\ UNCHANGED <<op, endpoint, use_cache, retry_on_auth_fail, exchange,
                   log, requests, cache, window, waiters, tokenVars, served>>
    /\ UNCHANGED <<stored, toolVars>>

\* Lines 89-90: the read of the 401 body ends, with the body or with
\* TimeoutError; the call raises.
ResponseText(p) ==
    /\ pc[p] = "text"
    /\ \E end \in {"read", "timeout"} : ReadText(p, response[p].text, end)
    /\ UNCHANGED <<op, endpoint, use_cache, retry_on_auth_fail, response,
                   refresh_token, exchange, log, refreshes, requests,
                   cache, window, waiters, tokenVars, served>>
    /\ UNCHANGED <<stored, toolVars>>

\* Lines 91-93: any other status.
RespondError(p, r) ==
    /\ pc[p] = "request"
    /\ r.status # 200
    /\ ~(r.status = 401 /\ retry_on_auth_fail[p])
    /\ response' = [response EXCEPT ![p] = r]
    /\ result' = [result EXCEPT ![p] = ApiError(r.status, r.text)]
    /\ pc' = [pc EXCEPT ![p] = "failed"]
    /\ UNCHANGED <<op, endpoint, use_cache, retry_on_auth_fail,
                   refresh_token, exchange, log, refreshes, requests,
                   cache, window, waiters, tokenVars, served>>
    /\ UNCHANGED <<stored, toolVars>>
    /\ headers' = [headers EXCEPT ![p] = NoToken]

\* Lines 73-74: the answer does not come and a timer of the HTTP session
\* ends the request with TimeoutError, which yahoo_api_call lets escape.
\* The code passes no timeout to ClientSession() or to session.get, so the
\* step may happen (the library's default timer) and nothing obliges it to.
Timeout(p) ==
    /\ pc[p] = "request"
    /\ result' = [result EXCEPT ![p] = TimedOut]
    /\ pc' = [pc EXCEPT ![p] = "failed"]
    /\ UNCHANGED <<op, endpoint, use_cache, retry_on_auth_fail, response,
                   refresh_token, exchange, log, refreshes, requests,
                   cache, window, waiters, tokenVars, served>>
    /\ UNCHANGED <<stored, toolVars>>
    /\ headers' = [headers EXCEPT ![p] = NoToken]

----------------------------------------------------------------------------
(* The token endpoint serves a posted grant exchange (lines 120-121) *)

\* The endpoint accepts the exchange: number exchanges + 1, rotating the
\* refresh credential or not.  Its 200 answer is on its way to the task.
\* At most `cap` exchanges are served.
TokenExchange(p, rotate, cap) ==
    /\ pc[p] = "refresh"
    /\ exchanges < cap
    /\ exchanges' = exchanges + 1
    /\ server_refresh' = IF rotate THEN RefreshToken(exchanges + 1)
                         ELSE server_refresh
    /\ exchange' = [exchange EXCEPT ![p] =
                      [serial |-> exchanges + 1, rotated |-> rotate]]
    /\ pc' = [pc EXCEPT ![p] = "refresh_resp"]
    /\ UNCHANGED <<op, endpoint, use_cache, retry_on_auth_fail, response,
                   refresh_token, result, log, refreshes, requests,
                   cache, window, waiters, YAHOO_ACCESS_TOKEN, environ,
                   applied, served>>
    /\ UNCHANGED <<stored, toolVars>>
    /\ UNCHANGED headers

\* The answers a task can receive: for a served exchange, its JSON object in
\* any shape consistent with the exchange, or a failure on the way back; for
\* a refused or lost exchange, a failure.
TokenAnswers(p) ==
    IF pc[p] = "refresh_resp"
    THEN { [kind |-> "json",
            json |-> TokenData(shape, exchange[p].serial, refresh_token[p])] :
           shape \in { s \in TokenShapes :
                         (s.refresh = "rotated") <=> exchange[p].rotated } }
         \cup TokenFailures
    ELSE IF pc[p] = "refresh" THEN TokenFailures
    ELSE {}

\* Line 84: refresh_result.get("status") == "success".
Succeeded(out) == ~out.raised /\ out.result.status = "success"

\* refresh_yahoo_token's outcome as its caller sees it.
Returned(out) ==
    IF out.raised THEN Raise("TypeError", << >>) ELSE Return(out.result)

\* Lines 122-153, then 84-90: refresh_yahoo_token finishes inside
\* yahoo_api_call, which retries the call once (line 86), or reads the body
\* of the 401 answer and raises.
RefreshReceiveCall(p, answer) ==
    /\ op[p] = "call"
    /\ answer \in TokenAnswers(p)
    /\ LET out == ApplyTokenResponse(answer, refresh_token[p],
                                     YAHOO_ACCESS_TOKEN, environ)
       IN  /\ YAHOO_ACCESS_TOKEN' = out.token
           /\ environ' = out.environ
           /\ IF Succeeded(out)
              THEN /\ EnterCall(p, endpoint[p], use_cache[p], RetryArgument,
                                requests[p])
                   /\ response' = [response EXCEPT ![p] = NoResponse]
                   /\ applied' = Append(applied, exchange[p].serial)
                   /\ headers' = Carry(p, out.token)
              ELSE /\ IF out.raised
                      THEN /\ result' = [result EXCEPT ![p] = Returned(out)]
                           /\ pc' = [pc EXCEPT ![p] = "failed"]
                           /\ headers' = [headers EXCEPT ![p] = NoToken]
                      ELSE \E end \in {"waits", "read", "timeout"} :
                              ReadText(p, response[p].text, end)
                   /\ UNCHANGED <<endpoint, use_cache, retry_on_auth_fail, log,
                                  waiters, window, requests, served, response,
                                  applied>>
    /\ refresh_token' = [refresh_token EXCEPT ![p] = NoToken]
    /\ exchange' = [exchange EXCEPT ![p] = NoExchange]
    /\ UNCHANGED <<op, refreshes, cache, exchanges, server_refresh>>
    /\ UNCHANGED <<stored, toolVars>>

\* Lines 1077-1079 and 100-117: the ff_refresh_token tool starts
\* refresh_yahoo_token, which returns at once for want of credentials or
\* posts the grant exchange.
StartRefreshTool(p) ==
    /\ pc[p] = "idle"
    /\ op' = [op EXCEPT ![p] = "refresh_tool"]
    /\ IF HasCredentials(environ)
       THEN /\ refresh_token' = [refresh_token EXCEPT ![p] = environ.YAHOO_REFRESH_TOKEN]
            /\ pc' = [pc EXCEPT ![p] = "refresh"]
            /\ UNCHANGED result
       ELSE /\ pc' = [pc EXCEPT ![p] = "done"]
            /\ result' = [result EXCEPT ![p] = Return(MissingCredentialsResult)]
            /\ UNCHANGED refresh_token
    /\ UNCHANGED <<endpoint, use_cache, retry_on_auth_fail, response, exchange,
                   log, refreshes, requests, cache, window, waiters,
                   tokenVars, served>>
    /\ UNCHANGED <<stored, toolVars>>
    /\ UNCHANGED headers

\* Lines 122-153, then 1079: refresh_yahoo_token finishes inside the tool,
\* which returns its result.
RefreshReceiveTool(p, answer) ==
    /\ op[p] = "refresh_tool"
    /\ answer \in TokenAnswers(p)
    /\ LET out == ApplyTokenResponse(answer, refresh_token[p],
                                     YAHOO_ACCESS_TOKEN, environ)
       IN  /\ YAHOO_ACCESS_TOKEN' = out.token
           /\ environ' = out.environ
           /\ result' = [result EXCEPT ![p] = Returned(out)]
           /\ pc' = [pc EXCEPT ![p] = IF out.raised THEN "failed" ELSE "done"]
           /\ applied' = IF Succeeded(out) THEN Append(applied, exchange[p].serial)
                         ELSE applied
    /\ refresh_token' = [refresh_token EXCEPT ![p] = NoToken]
    /\ exchange' = [exchange EXCEPT ![p] = NoExchange]
    /\ UNCHANGED <<op, endpoint, use_cache, retry_on_auth_fail, response, log,
                   refreshes, requests, cache, window, waiters,
                   exchanges, server_refresh, served>>
    /\ UNCHANGED <<stored, toolVars>>
    /\ UNCHANGED headers

\* ff_clear_cache clearing everything whatever its argument.
ClearArgumentIgnored(pattern) == NoPattern

\* Line 1154: the tool hands its argument to response_cache.clear.
ClearArgument(pattern) == pattern

\* Line 1158: `if pattern`; None and the empty string are false.
PatternGiven(pattern) == pattern # NoPattern /\ pattern # << >>

\* ff_clear_cache dropping the discovered leagues as well.
ClearedLeaguesDropped(lc) == << >>

\* Lines 1149-1159: ff_clear_cache has no statement that assigns
\* LEAGUES_CACHE.
ClearedLeagues(lc) == lc

\* Lines 1149-1159: task p runs the ff_clear_cache tool, which clears and
\* reports success.
ff_clear_cache(p, pattern) ==
    /\ pc[p] = "idle"
    /\ op' = [op EXCEPT ![p] = "clear_tool"]
    /\ frame' = [frame EXCEPT ![p] =
                   [tool |-> "ff_clear_cache", stage |-> "end", pattern |-> pattern]]
    /\ cache' = CacheClear(cache, ClearArgument(pattern))
    /\ stored' = Forget(stored, ClearArgument(pattern))
    /\ served' = NoServed
    /\ result' = [result EXCEPT ![p] =
                    Return([status |-> "success",
                            message |-> IF ~PatternGiven(pattern)
                                        THEN <<"Cache cleared completely">>
                                        ELSE <<"Cache cleared for pattern", pattern>>])]
    /\ pc' = [pc EXCEPT ![p] = "done"]
    /\ UNCHANGED <<endpoint, use_cache, retry_on_auth_fail, response,
                   refresh_token, exchange, log, refreshes, requests,
                   window, waiters, tokenVars, invocations>>
    /\ LEAGUES_CACHE' = ClearedLeagues(LEAGUES_CACHE)
    /\ UNCHANGED headers

\* Time passes.
Tick ==
    /\ cache' = CacheAge(cache)
    /\ window' = WindowAge(window)
    /\ served' = IF served.ttl > 1 THEN [served EXCEPT !.ttl = @ - 1] ELSE NoServed
    /\ UNCHANGED <<procVars, waiters, tokenVars>>
    /\ stored' = Older(stored)
    /\ UNCHANGED toolVars

\* No tool operation runs in the task.
NoFrame == [tool |-> "none", stage |-> "none"]

\* A tool operation of task p is under way: what yahoo_api_call returns or
\* raises goes to the tool's code, not to the caller of the task.
Running(p) == frame[p].tool # "none" /\ frame[p].stage # "end"

\* The caller takes what the task returned or raised; the task's frame is gone.
Completed(p) == pc[p] \in {"done", "failed"}

Collect(p) ==
    /\ Completed(p)
    /\ ~Running(p)
    /\ pc' = [pc EXCEPT ![p] = "idle"]
    /\ op' = [op EXCEPT ![p] = "none"]
    /\ endpoint' = [endpoint EXCEPT ![p] = << >>]
    /\ use_cache' = [use_cache EXCEPT ![p] = FALSE]
    /\ retry_on_auth_fail' = [retry_on_auth_fail EXCEPT ![p] = FALSE]
    /\ result' = [result EXCEPT ![p] = NoResult]
    /\ log' = [log EXCEPT ![p] = << >>]
    /\ refreshes' = [refreshes EXCEPT ![p] = 0]
    /\ requests' = [requests EXCEPT ![p] = 0]
    /\ response' = [response EXCEPT ![p] = NoResponse]
    /\ frame' = [frame EXCEPT ![p] = NoFrame]
    /\ UNCHANGED <<refresh_token, exchange, cache, window, waiters,
                   tokenVars, served, stored, LEAGUES_CACHE, invocations>>
    /\ headers' = [headers EXCEPT ![p] = NoToken]

----------------------------------------------------------------------------
(* Initial state: the module has been imported (lines 33-51) *)

Environments ==
    [YAHOO_ACCESS_TOKEN : {AccessToken(0)},
     YAHOO_CONSUMER_KEY : {<<"key">>, NoToken},
     YAHOO_CONSUMER_SECRET : {<<"secret">>, NoToken},
     YAHOO_REFRESH_TOKEN : {RefreshToken(0), NoToken}]

InitWith(envs) ==
    /\ pc = [p \in Procs |-> "idle"]
    /\ op = [p \in Procs |-> "none"]
    /\ endpoint = [p \in Procs |-> << >>]
    /\ use_cache = [p \in Procs |-> FALSE]
    /\ retry_on_auth_fail = [p \in Procs |-> FALSE]
    /\ response = [p \in Procs |-> NoResponse]
    /\ refresh_token = [p \in Procs |-> NoToken]
    /\ exchange = [p \in Procs |-> NoExchange]
    /\ result = [p \in Procs |-> NoResult]
    /\ log = [p \in Procs |-> << >>]
    /\ refreshes = [p \in Procs |-> 0]
    /\ requests = [p \in Procs |-> 0]
    /\ cache = [k \in {} |-> 0]
    /\ window = << >>
    /\ waiters = << >>
    /\ environ \in envs
    /\ YAHOO_ACCESS_TOKEN = environ.YAHOO_ACCESS_TOKEN
    /\ exchanges = 0
    /\ server_refresh = environ.YAHOO_REFRESH_TOKEN
    /\ applied = << >>
    /\ served = NoServed
    /\ stored = [k \in {} |-> 0]
    /\ frame = [p \in Procs |-> NoFrame]
    /\ LEAGUES_CACHE = << >>
    /\ invocations = 0
    /\ headers = [p \in Procs |-> NoToken]

\* A completed task is collected before anything else runs: nothing reads a
\* completed task's frame, so no interleaving of the program is lost.
Quiet == \A p \in Procs : ~Completed(p)

----------------------------------------------------------------------------
(* Spec: tasks calling yahoo_api_call concurrently, ff_clear_cache, time.   *)
(* The client credentials are present; the refresh credential may be       *)
(* missing.  The token endpoint does not rotate the refresh credential     *)
(* here (RefreshSpec covers rotation).                                     *)

Init == InitWith({ e \in Environments : /\ Truthy(e.YAHOO_CONSUMER_KEY)
                                        /\ Truthy(e.YAHOO_CONSUMER_SECRET) })

Next ==
    \/ \E p \in Procs : Collect(p)
    \/ \E p \in Procs, e \in Endpoints, uc \in BOOLEAN : Quiet /\ StartCall(p, e, uc)
    \/ \E p \in Procs : Quiet /\ Acquire(p)
    \/ \E p \in Procs, r \in Responses : Quiet /\ Respond200(p, r)
    \/ \E p \in Procs, r \in Responses : Quiet /\ Respond401(p, r)
    \/ \E p \in Procs, r \in Responses : Quiet /\ RespondError(p, r)
    \/ \E p \in Procs : Quiet /\ Timeout(p)
    \/ \E p \in Procs : Quiet /\ TokenExchange(p, FALSE, GatewayExchanges)
    \/ \E p \in Procs : \E a \in TokenAnswers(p) : Quiet /\ RefreshReceiveCall(p, a)
    \/ \E p \in Procs : Quiet /\ ResponseText(p)
    \/ \E p \in Procs, pattern \in ClearPatterns \cup {NoPattern} :
          Quiet /\ ff_clear_cache(p, pattern)
    \/ Quiet /\ Tick

Spec == Init /\ [][Next]_vars

----------------------------------------------------------------------------
(* RefreshSpec: tasks running the ff_refresh_token tool concurrently, in   *)
(* every environment.                                                      *)

RefreshInit == InitWith(Environments)

RefreshNext ==
    \/ \E p \in Procs : Collect(p)
    \/ \E p \in Procs : Quiet /\ StartRefreshTool(p)
    \/ \E p \in Procs, rotate \in BOOLEAN :
          Quiet /\ TokenExchange(p, rotate, MaxExchanges)
    \/ \E p \in Procs : \E a \in TokenAnswers(p) : Quiet /\ RefreshReceiveTool(p, a)

RefreshSpec == RefreshInit /\ [][RefreshNext]_vars

----------------------------------------------------------------------------
(* FairSpec: the gateway under the scheduling the runtime guarantees, for  *)
(* one endpoint.  The event loop runs every ready task (Collect, Acquire), *)
(* and time passes (Tick).  Nothing obliges the upstream or the token      *)
(* endpoint to answer, and nothing in the code obliges a wait for them to  *)
(* end: yahoo_api_call and refresh_yahoo_token pass no timeout (lines      *)
(* 73-74, 119-120) and wrap no await in a deadline, so Timeout, the        *)
(* failure answers of the token endpoint and ResponseText may happen and   *)
(* are not assumed to.  The conditions are strong where a completed task   *)
(* awaiting Collect interrupts the enabling.                               *)

FairEndpoints == { <<"a", "b">> }
FairResponses == { r \in Responses :
                     /\ r.status = 200 => r.json = [fantasy_content |-> "v1"]
                     /\ r.status = 401 => r.text = LongBody }

FairNext ==
    \/ \E p \in Procs : Collect(p)
    \/ \E p \in Procs, e \in FairEndpoints, uc \in BOOLEAN :
          Quiet /\ StartCall(p, e, uc)
    \/ \E p \in Procs : Quiet /\ Acquire(p)
    \/ \E p \in Procs, r \in FairResponses : Quiet /\ Respond200(p, r)
    \/ \E p \in Procs, r \in FairResponses : Quiet /\ Respond401(p, r)
    \/ \E p \in Procs, r \in FairResponses : Quiet /\ RespondError(p, r)
    \/ \E p \in Procs : Quiet /\ Timeout(p)
    \/ \E p \in Procs : Quiet /\ TokenExchange(p, FALSE, GatewayExchanges)
    \/ \E p \in Procs : \E a \in TokenAnswers(p) : Quiet /\ RefreshReceiveCall(p, a)
    \/ \E p \in Procs : Quiet /\ ResponseText(p)
    \/ \E p \in Procs : Quiet /\ ff_clear_cache(p, NoPattern)
    \/ Quiet /\ Tick

Fairness ==
    /\ WF_vars(\E p \in Procs : Collect(p))
    /\ SF_vars(Quiet /\ Tick)
    /\ \A p \in Procs : SF_vars(Quiet /\ Acquire(p))

FairSpec == Init /\ [][FairNext]_vars /\ Fairness

----------------------------------------------------------------------------
(* The tools and their helpers: values (lines 156-483 and 603-1180) *)

\* Python None where a dict, a list or a string is expected.
None == [none |-> TRUE]

\* Line 216: the default of YAHOO_GUID.
YAHOO_GUID == "QQQ5VN577FJJ4GT2NLMJMIYEBU"

\* Line 54: no caller passes use_cache, so every tool call uses the default.
ToolUseCacheOff == FALSE
ToolUseCache == TRUE

\* Endpoint strings, as the sequence of their ";"-separated segments.
LeaguesEndpoint == <<"users", "use_login=1/games", "game_keys=nfl/leagues">>
TeamsEndpoint(league_key) == <<"league/" \o league_key \o "/teams">>
StandingsEndpoint(league_key) == <<"league/" \o league_key \o "/standings">>
RosterEndpoint(team_key) == <<"team/" \o team_key \o "/roster">>

\* Lines 912-913; week is an integer, None and 0 (both false) are 0 here.
MatchupsEndpoint(team_key, week) ==
    <<"team/" \o team_key \o "/matchups">>
        \o (IF week # 0 THEN <<"week=" \o ToString(week)>> ELSE << >>)

\* Lines 941-943: ff_get_players.
PlayersEndpoint(league_key, position, count) ==
    <<"league/" \o league_key \o "/players", "status=A">>
        \o (IF position # "" THEN <<"position=" \o position>> ELSE << >>)
        \o <<"sort=OR", "count=" \o ToString(count)>>

\* Lines 370-373: get_draft_rankings.
RankingsEndpoint(league_key, position, count) ==
    <<"league/" \o league_key \o "/players">>
        \o (IF position # "all" THEN <<"position=" \o position>> ELSE << >>)
        \o <<"sort=OR", "count=" \o ToString(count)>>

\* Lines 295-303: get_waiver_wire_players.
SortType(sort) ==
    CASE sort = "rank" -> "OR"
      [] sort = "points" -> "PTS"
      [] sort = "owned" -> "O"
      [] sort = "trending" -> "A"
      [] OTHER -> "OR"
WaiverEndpoint(league_key, position, sort, count) ==
    <<"league/" \o league_key \o "/players", "status=A">>
        \o (IF position # "all" THEN <<"position=" \o position>> ELSE << >>)
        \o <<"sort=" \o SortType(sort), "count=" \o ToString(count)>>

\* A JSON document that is a non-empty array and not an object: data.get(...)
\* and data.keys() raise AttributeError on it.
JsonArray == [array |-> <<"x">>]
IsObject(data) == "array" \notin DOMAIN data

\* data.get("fantasy_content", {}).get(top, []) and the list found under
\* `key` in it; the empty list when a level is missing.
Content(data, top, key) ==
    Get(Get(Get(data, "fantasy_content", << >>), top, << >>), key, << >>)

\* The payloads of league/{k}/teams: one record per team with what the parse
\* loops of lines 224-269 and 440-473 read from it.
Team(key, name, owned, guid, position) ==
    [team_key |-> key, name |-> name, is_owned_by_current_login |-> owned,
     guid |-> guid, draft_position |-> position]
TeamsPayload(teams) == [fantasy_content |-> [league |-> [teams |-> teams]]]

\* The payloads of the player listings and of team/{t}/roster.
Player(name, position, pick) ==
    [name |-> name, display_position |-> position, average_pick |-> pick]
PlayersPayload(players) == [fantasy_content |-> [league |-> [players |-> players]]]
RosterPayload(players) == [fantasy_content |-> [team |-> [roster |-> players]]]

\* The payload of league discovery: one record per league (lines 185-202).
League(key, name) == [league_key |-> key, name |-> name]
LeaguesPayload(leagues) == [fantasy_content |-> [users |-> [leagues |-> leagues]]]

\* list.sort(key=...): stable, ascending.  keys[i] is the key of s[i].
StableSort(s, keys) ==
    LET rank(i) == Cardinality({ j \in 1..Len(s) :
                       keys[j] < keys[i] \/ (keys[j] = keys[i] /\ j < i) }) + 1
    IN  [r \in 1..Len(s) |-> s[CHOOSE i \in 1..Len(s) : rank(i) = r]]

\* The elements of s that satisfy Keep, in order.
RECURSIVE Filter(_, _)
Filter(s, keep) ==
    IF s = << >> THEN << >>
    ELSE (IF keep[1] THEN <<Head(s)>> ELSE << >>) \o Filter(Tail(s), Tail(keep))

\* Lines 260-271: the team is the user's.
IsUsersTeam(team) ==
    /\ team.is_owned_by_current_login = 1 \/ team.guid = YAHOO_GUID
    /\ team.team_key # ""

\* Lines 210-282: get_user_team_info, from what yahoo_api_call returned or
\* raised.  The first team of the user; None when there is none, and None
\* when the call or the parse raised (lines 280-282).
get_user_team_info(res) ==
    IF res.kind # "return" \/ ~IsObject(res.value) THEN None
    ELSE LET teams == Content(res.value, "league", "teams")
             mine == { i \in 1..Len(teams) : IsUsersTeam(teams[i]) }
         IN  IF mine = {} THEN None
             ELSE LET team == teams[CHOOSE i \in mine : \A j \in mine : i <= j]
                  IN  [team_key |-> team.team_key, team_name |-> team.name,
                       draft_position |-> team.draft_position]

\* Lines 285-288: get_user_team_key.  Its None is the empty string here: the
\* callers only test `if team_key`.
get_user_team_key(res) ==
    LET team_info == get_user_team_info(res)
    IN  IF team_info # None THEN team_info.team_key ELSE ""

\* Lines 429-483: get_all_teams_info.  The teams that have a key, by draft
\* position; the empty list when the call or the parse raised.
get_all_teams_info(res) ==
    IF res.kind # "return" \/ ~IsObject(res.value) THEN << >>
    ELSE LET teams == Content(res.value, "league", "teams")
             kept == Filter(teams, [i \in 1..Len(teams) |-> teams[i].team_key # ""])
         IN  StableSort([i \in 1..Len(kept) |->
                            [team_key |-> kept[i].team_key, name |-> kept[i].name,
                             draft_position |-> kept[i].draft_position]],
                        [i \in 1..Len(kept) |-> kept[i].draft_position])

\* Lines 946-992 (and 306-352): the listed players that have a name.
ParsePlayers(data) ==
    LET players == Content(data, "league", "players")
        kept == Filter(players, [i \in 1..Len(players) |-> players[i].name # ""])
    IN  [i \in 1..Len(kept) |->
            [name |-> kept[i].name, position |-> kept[i].display_position]]

\* Lines 291-356: get_waiver_wire_players.
get_waiver_wire_players(res) ==
    IF res.kind # "return" \/ ~IsObject(res.value) THEN << >>
    ELSE ParsePlayers(res.value)

\* Lines 376-426: get_draft_rankings after its call: the named players by
\* average pick; the empty list when the call or the parse raised.
get_draft_rankings(res) ==
    IF res.kind # "return" \/ ~IsObject(res.value) THEN << >>
    ELSE LET players == Content(res.value, "league", "players")
             kept == Filter(players, [i \in 1..Len(players) |-> players[i].name # ""])
         IN  StableSort([i \in 1..Len(kept) |->
                            [name |-> kept[i].name,
                             position |-> kept[i].display_position,
                             average_draft_position |-> kept[i].average_pick]],
                        [i \in 1..Len(kept) |-> kept[i].average_pick])

\* A parse whose error discards the leagues parsed before it.
ParseLeaguesAllOrNothing(data) ==
    IF ~IsObject(data) THEN << >>
    ELSE LET leagues == Content(data, "users", "leagues")
         IN  IF \E i \in 1..Len(leagues) : ~IsObject(leagues[i]) THEN << >>
             ELSE [i \in 1..Len(leagues) |->
                     [key |-> leagues[i].league_key, name |-> leagues[i].name]]

\* Lines 166-207: the league map discover_leagues builds from a payload.  The
\* parse runs through the leagues in the payload's order; when it raises
\* (data or a league's first element is no object: .get raises
\* AttributeError) lines 203-204 swallow the exception and the map keeps
\* what was parsed until then.  The map is a Python dict: it keeps its keys
\* in the order of their first insertion (line 366 reads the first), and a
\* key inserted again keeps its place and takes the new value.  Here it is
\* the sequence of its values, each with its key, in that order.
ParseLeagues(data) ==
    IF ~IsObject(data) THEN << >>
    ELSE LET leagues == Content(data, "users", "leagues")
             parsed == { i \in 1..Len(leagues) :
                           \A j \in 1..i : IsObject(leagues[j]) }
             first == [i \in 1..Len(leagues) |->
                         /\ i \in parsed
                         /\ \A j \in 1..(i - 1) :
                               leagues[j].league_key # leagues[i].league_key]
             kept == Filter(leagues, first)
         IN  [n \in 1..Len(kept) |->
                 LET i == CHOOSE j \in parsed :
                            /\ leagues[j].league_key = kept[n].league_key
                            /\ \A l \in parsed :
                                  l > j => leagues[l].league_key # kept[n].league_key
                 IN  [key |-> kept[n].league_key, name |-> leagues[i].name]]

\* leagues.keys(), `league_key in leagues` and leagues[league_key].
Keys(leagues) == [i \in 1..Len(leagues) |-> leagues[i].key]
HasKey(leagues, league_key) == \E i \in 1..Len(leagues) : leagues[i].key = league_key
Item(leagues, league_key) ==
    leagues[CHOOSE i \in 1..Len(leagues) : leagues[i].key = league_key]

----------------------------------------------------------------------------
(* LineupOptimizer (src.lineup_optimizer) *)

\* The starting slots, most constrained first, with the positions eligible
\* for each.
LineupSlots == << [slot |-> "QB", eligible |-> {"QB"}],
                 [slot |-> "FLEX", eligible |-> {"RB", "WR", "TE"}] >>

\* Names in alphabetical order.
Names == <<"Adams", "Brown", "Chase", "Diggs", "Evans", "Ford", "Gibbs", "Hurts">>
NameIndex(name) == CHOOSE i \in 1..Len(Names) : Names[i] = name

\* One roster player after parse_yahoo_roster and enhance_with_external_data.
Rostered(name, position, score, projection) ==
    [name |-> name, position |-> position, status |-> "OK",
     composite_score |-> score, yahoo_projection |-> projection]

\* a is chosen before b: higher composite score, then higher primary
\* projection, then alphabetical by name.
PlayerBefore(a, b) ==
    \/ a.composite_score > b.composite_score
    \/ /\ a.composite_score = b.composite_score
       /\ \/ a.yahoo_projection > b.yahoo_projection
          \/ /\ a.yahoo_projection = b.yahoo_projection
             /\ NameIndex(a.name) < NameIndex(b.name)

\* The slots filled in order, each with the best free eligible player; a
\* slot nobody is eligible for stays unfilled.
RECURSIVE Starters(_, _, _)
Starters(slots, players, free) ==
    IF slots = << >> THEN << >>
    ELSE LET eligible == { i \in free : players[i].position \in Head(slots).eligible }
         IN  IF eligible = {} THEN Starters(Tail(slots), players, free)
             ELSE LET best == CHOOSE i \in eligible : \A j \in eligible \ {i} :
                                  PlayerBefore(players[i], players[j])
                  IN  <<[slot |-> Head(slots).slot, index |-> best]>>
                          \o Starters(Tail(slots), players, free \ {best})

\* A bench in roster order.
BenchUnordered(players, rest) ==
    Filter(players, [i \in 1..Len(players) |-> i \in rest])

\* The players left over, best first.
BenchOrdered(players, rest) ==
    LET place(i) == Cardinality({ j \in rest : PlayerBefore(players[j], players[i]) }) + 1
    IN  [r \in 1..Cardinality(rest) |-> players[CHOOSE i \in rest : place(i) = r]]

\* optimize_lineup(players, strategy).
optimize_lineup(players) ==
    LET starters == Starters(LineupSlots, players, 1..Len(players))
        started == { starters[k].index : k \in 1..Len(starters) }
    IN  [starters |-> [k \in 1..Len(starters) |->
                          [slot |-> starters[k].slot, player |-> players[starters[k].index]]],
         bench |-> BenchOrdered(players, (1..Len(players)) \ started)]

----------------------------------------------------------------------------
(* The tools: what each does up to its next call of yahoo_api_call *)

\* Python s[:n]: the first n elements, all of s if it has fewer; for n < 0
\* all but the last -n elements.
Take(s, n) ==
    LET stop == IF n >= 0 THEN n ELSE Len(s) + n
    IN  SubSeq(s, 1, IF stop > Len(s) THEN Len(s) ELSE IF stop < 0 THEN 0 ELSE stop)

\* Line 1050: the bench entries a lineup result shows.
BENCH_SHOWN == 5

ToolError(msg) == Raise("ToolError", msg)

\* A tool goes on to call yahoo_api_call(endpoint) inside `stage`, or ends.
Call(e, stage, f, lc) == [kind |-> "call", endpoint |-> e, stage |-> stage,
                          frame |-> f, leagues |-> lc]
End(res, f, lc) == [kind |-> "end", result |-> res, frame |-> f, leagues |-> lc]

\* Lines 608-626: ff_get_leagues after discover_leagues.
LeaguesResult(leagues) ==
    IF leagues = << >>
    THEN Return([error |-> "No active NFL leagues found"])
    ELSE Return([total_leagues |-> Len(leagues), leagues |-> leagues])

\* Lines 1173-1180: ff_get_draft_rankings after get_draft_rankings.
RankingsResult(args, players) ==
    IF players # << >>
    THEN Return([position |-> args.position, total_players |-> Len(players),
                 rankings |-> players])
    ELSE ToolError(<<"Could not retrieve draft rankings for league ", args.league_key>>)

\* Lines 1088-1103: ff_get_draft_results after get_all_teams_info.
DraftResult(args, teams) ==
    IF teams # << >>
    THEN Return([league_key |-> args.league_key, total_teams |-> Len(teams),
                 draft_results |-> teams])
    ELSE ToolError(<<"Could not retrieve draft results for league ", args.league_key>>)

\* Lines 901, 929, 1074.
MissingTeam(args) == ToolError(<<"Could not find your team in league ", args.league_key>>)

\* Lines 838-899: ff_get_roster after its roster call returned data.
RosterResult(f, data) ==
    IF ~IsObject(data) THEN Raise("AttributeError", <<"get">>)
    ELSE LET players == Content(data, "team", "roster")
             kept == Filter(players, [i \in 1..Len(players) |-> players[i].name # ""])
         IN  Return([league_key |-> f.args.league_key,
                     team_key |-> f.team_info.team_key,
                     team_name |-> f.team_info.team_name,
                     draft_position |-> f.team_info.draft_position,
                     roster |-> [i \in 1..Len(kept) |->
                                   [name |-> kept[i].name,
                                    position |-> kept[i].position,
                                    status |-> kept[i].status]]])

\* Lines 919 and 1062: week or "current"; the number as its decimal string.
WeekOrCurrent(week) == IF week # 0 THEN ToString(week) ELSE "current"

\* Lines 916-927: ff_get_matchup after its matchups call returned data.
MatchupResult(f, data) ==
    IF ~IsObject(data) THEN Raise("AttributeError", <<"keys">>)
    ELSE Return([league_key |-> f.args.league_key,
                 team_key |-> f.team_info.team_key,
                 week |-> WeekOrCurrent(f.args.week),
                 message |-> "Matchup data retrieved",
                 raw_data |-> data])

\* Lines 946-999: ff_get_players after its call returned data.
PlayersResult(f, data) ==
    IF ~IsObject(data) THEN Raise("AttributeError", <<"get">>)
    ELSE LET players == ParsePlayers(data)
         IN  Return([league_key |-> f.args.league_key,
                     position |-> IF f.args.position # "" THEN f.args.position ELSE "all",
                     count |-> Len(players),
                     players |-> Take(players, f.args.count)])

\* A lineup result showing the whole bench.
ShownAll(bench) == bench

\* Line 1050: optimization["bench"][:5].
Shown(bench) == Take(bench, BENCH_SHOWN)

\* Lines 1032-1072: ff_get_optimal_lineup from the optimizer's players.
LineupResult(f, players) ==
    LET optimization == optimize_lineup(players)
    IN  Return([league_key |-> f.args.league_key,
                team_key |-> f.team_info.team_key,
                week |-> WeekOrCurrent(f.args.week),
                optimal_lineup |->
                    [k \in 1..Len(optimization.starters) |->
                        [slot |-> optimization.starters[k].slot,
                         name |-> optimization.starters[k].player.name,
                         composite_score |-> optimization.starters[k].player.composite_score]],
                bench |->
                    LET shown == Shown(optimization.bench)
                    IN  [k \in 1..Len(shown) |->
                            [name |-> shown[k].name, position |-> shown[k].position,
                             composite_score |-> shown[k].composite_score]],
                analysis |-> [total_players |-> Len(players)]])

\* The frame of a tool that has just been invoked.
NewFrame(tool, args) ==
    [tool |-> tool, stage |-> "start", args |-> args, team_info |-> None,
     league |-> None, roster_data |-> None, players |-> << >>, calls |-> << >>]

UserTeamTools == {"ff_get_roster", "ff_get_matchup", "ff_get_optimal_lineup"}

\* Lines 359-374: get_draft_rankings up to its call, once the league is known.
RankingsCall(f, league_key, lc) ==
    Call(RankingsEndpoint(league_key, f.args.position, f.args.count),
         "get_draft_rankings", f, lc)

\* Line 641: ff_get_league_info's last call.
LeagueEndpoint(league_key) == <<"league/" \o league_key>>

\* Lines 633-638 and 657-658: ff_get_league_info once discover_leagues has
\* returned `leagues`: it looks the league up and goes on to
\* get_user_team_info, or raises ToolError.
LeagueInfoFound(f, leagues, lc) ==
    IF HasKey(leagues, f.args.league_key)
    THEN Call(TeamsEndpoint(f.args.league_key), "get_user_team_info",
              [f EXCEPT !.league = Item(leagues, f.args.league_key)], lc)
    ELSE End(ToolError(<<"League ", f.args.league_key,
                         " not found. Available leagues: ", Keys(leagues)>>), f, lc)

\* Lines 642-656: ff_get_league_info's result, from the league record found
\* at line 635 and the user's team (the payload of line 641 is not read).
LeagueInfoResult(f) ==
    Return([league |-> f.league.name,
            key |-> f.args.league_key,
            your_team |-> IF f.team_info # None THEN f.team_info.team_name
                          ELSE "Not found"])

\* Line 366: list(leagues.keys())[0], the key inserted first.
FirstLeague(lc) == Keys(lc)[1]

\* Lines 1027-1073: ff_get_optimal_lineup from line 1027 on, its frame
\* holding the parsed players.  `await optimizer.enhance_with_external_data`
\* fetches from external sources: the tool suspends there while they answer,
\* or runs on to its result when the optimizer has nothing to wait for.
Enhance(f, lc) ==
    { [kind |-> "await", stage |-> "enhance_with_external_data",
       frame |-> f, leagues |-> lc],
      End(LineupResult(f, f.players), f, lc) }

\* Lines 1024-1073: ff_get_optimal_lineup from the return of
\* `await optimizer.parse_yahoo_roster(roster_data)` on, its frame holding
\* roster_data.  What parse_yahoo_roster makes of a payload that is no object
\* is not known: it raises or finds nobody.
Parse(f, lc) ==
    IF IsObject(f.roster_data)
    THEN Enhance([f EXCEPT !.players = Content(f.roster_data, "team", "roster")], lc)
    ELSE { End(Raise("AttributeError", <<"get">>), f, lc) } \cup Enhance(f, lc)

\* A tool from its invocation to its first call of yahoo_api_call, or to its
\* end if it makes none.  lc is LEAGUES_CACHE.
Begin(f, lc) ==
    LET args == f.args
    IN  CASE f.tool = "ff_get_leagues" ->
               \* lines 606, 160-164
               IF lc # << >> THEN End(LeaguesResult(lc), f, lc)
               ELSE Call(LeaguesEndpoint, "discover_leagues", f, lc)
          [] f.tool = "ff_get_league_info" ->
               \* lines 633, 160-164
               IF lc # << >> THEN LeagueInfoFound(f, lc, lc)
               ELSE Call(LeaguesEndpoint, "discover_leagues", f, lc)
          [] f.tool = "ff_get_standings" ->
               \* line 665
               Call(StandingsEndpoint(args.league_key), "body", f, lc)
          [] f.tool \in UserTeamTools ->
               \* lines 832, 909, 1011, 213
               Call(TeamsEndpoint(args.league_key), "get_user_team_info", f, lc)
          [] f.tool = "ff_get_players" ->
               \* lines 941-944
               Call(PlayersEndpoint(args.league_key, args.position, args.count),
                    "body", f, lc)
          [] f.tool = "ff_get_waiver_wire" ->
               \* line 1120: `arguments` is not defined
               End(Raise("NameError", <<"arguments">>), f, lc)
          [] f.tool = "ff_get_draft_rankings" ->
               \* lines 1171, 363-374
               IF args.league_key # "" THEN RankingsCall(f, args.league_key, lc)
               ELSE IF lc # << >> THEN RankingsCall(f, FirstLeague(lc), lc)
               ELSE Call(LeaguesEndpoint, "discover_leagues", f, lc)
          [] f.tool = "ff_get_draft_results" ->
               \* lines 1086, 432
               Call(TeamsEndpoint(args.league_key), "get_all_teams_info", f, lc)

\* The outcomes of a tool from the return of yahoo_api_call (res is what it
\* returned or raised) to the tool's next call or its end.
After(f, res, lc) ==
    LET args == f.args
    IN  CASE f.stage = "discover_leagues" /\ f.tool = "ff_get_leagues" ->
               \* line 164 is outside the try: the exception leaves the tool
               IF res.kind # "return" THEN { End(res, f, lc) }
               ELSE LET leagues == ParseLeagues(res.value)
                    IN  { End(LeaguesResult(leagues), f, leagues) }
          [] f.stage = "discover_leagues" /\ f.tool = "ff_get_league_info" ->
               \* line 164 is outside the try: the exception leaves the tool
               IF res.kind # "return" THEN { End(res, f, lc) }
               ELSE LET leagues == ParseLeagues(res.value)
                    IN  { LeagueInfoFound(f, leagues, leagues) }
          [] f.stage = "discover_leagues" /\ f.tool = "ff_get_draft_rankings" ->
               \* lines 364-368; the exception is caught at line 425
               IF res.kind # "return" THEN { End(RankingsResult(args, << >>), f, lc) }
               ELSE LET leagues == ParseLeagues(res.value)
                    IN  IF leagues = << >>
                        THEN { End(RankingsResult(args, << >>), f, leagues) }
                        ELSE { RankingsCall(f, FirstLeague(leagues), leagues) }
          [] f.stage = "get_draft_rankings" ->
               { End(RankingsResult(args, get_draft_rankings(res)), f, lc) }
          [] f.stage = "get_all_teams_info" ->
               { End(DraftResult(args, get_all_teams_info(res)), f, lc) }
          [] f.stage = "get_user_team_info" /\ f.tool = "ff_get_league_info" ->
               \* lines 638-641: no team is no error here
               { Call(LeagueEndpoint(args.league_key), "body",
                      [f EXCEPT !.team_info = get_user_team_info(res)], lc) }
          [] f.stage = "get_user_team_info" /\ f.tool \in UserTeamTools ->
               LET team_info == get_user_team_info(res)
                   g == [f EXCEPT !.team_info = team_info]
               IN  IF team_info = None THEN { End(MissingTeam(args), g, lc) }
                   ELSE IF f.tool = "ff_get_matchup"
                   THEN { Call(MatchupsEndpoint(team_info.team_key, args.week),
                               "body", g, lc) }
                   ELSE { Call(RosterEndpoint(team_info.team_key), "body", g, lc) }
          [] f.stage = "body" /\ res.kind # "return" ->
               \* nothing catches what yahoo_api_call raises
               { End(res, f, lc) }
          [] f.stage = "body" /\ res.kind = "return" ->
               CASE f.tool = "ff_get_standings" ->
                      \* line 668 reads `data`, line 665 assigned `ata`
                      { End(Raise("NameError", <<"data">>), f, lc) }
                 [] f.tool = "ff_get_roster" -> { End(RosterResult(f, res.value), f, lc) }
                 [] f.tool = "ff_get_matchup" -> { End(MatchupResult(f, res.value), f, lc) }
                 [] f.tool = "ff_get_players" -> { End(PlayersResult(f, res.value), f, lc) }
                 [] f.tool = "ff_get_league_info" -> { End(LeagueInfoResult(f), f, lc) }
                 [] f.tool = "ff_get_optimal_lineup" ->
                      \* lines 1015-1024: roster_data is bound; the tool
                      \* suspends in `await optimizer.parse_yahoo_roster`,
                      \* `players` not bound yet, or the parse returns at once
                      LET g == [f EXCEPT !.roster_data = res.value]
                      IN  { [kind |-> "await", stage |-> "parse_yahoo_roster",
                             frame |-> g, leagues |-> lc] } \cup Parse(g, lc)

\* Task p carries out `out`: it enters yahoo_api_call, a new logical call,
\* or the tool ends with its result or its exception.
Proceed(p, out) ==
    /\ LEAGUES_CACHE' = out.leagues
    /\ IF out.kind = "call"
       THEN /\ frame' = [frame EXCEPT ![p] =
                           [out.frame EXCEPT !.stage = out.stage,
                                             !.calls = Append(@, out.endpoint)]]
            /\ op' = [op EXCEPT ![p] = "call"]
            /\ EnterCall(p, out.endpoint, ToolUseCache, TRUE, 0)
            /\ headers' = Carry(p, YAHOO_ACCESS_TOKEN)
            /\ refreshes' = [refreshes EXCEPT ![p] = 0]
            /\ response' = [response EXCEPT ![p] = NoResponse]
            /\ UNCHANGED <<refresh_token, exchange, cache, tokenVars, stored>>
       ELSE /\ frame' = [frame EXCEPT ![p] =
                           [out.frame EXCEPT !.stage =
                               IF out.kind = "await" THEN out.stage ELSE "end"]]
            /\ op' = [op EXCEPT ![p] = "tool"]
            /\ result' = [result EXCEPT ![p] =
                            IF out.kind = "await" THEN NoResult ELSE out.result]
            /\ pc' = [pc EXCEPT ![p] =
                        IF out.kind = "await" THEN "await"
                        ELSE IF out.result.kind = "return" THEN "done" ELSE "failed"]
            /\ UNCHANGED headers
            /\ UNCHANGED <<endpoint, use_cache, retry_on_auth_fail, response,
                           refresh_token, exchange, log, refreshes, requests,
                           cache, window, waiters, tokenVars, served, stored>>

\* The host invokes a tool in task p, its invocation number at most `cap`.
ToolStartUpTo(p, tool, args, cap) ==
    /\ pc[p] = "idle"
    /\ invocations < cap
    /\ invocations' = invocations + 1
    /\ Proceed(p, Begin(NewFrame(tool, args), LEAGUES_CACHE))

ToolStart(p, tool, args) == ToolStartUpTo(p, tool, args, MaxToolRuns)

\* yahoo_api_call has returned or raised inside a tool: the tool's code runs
\* on to its next call, to its next wait or to its end.
ToolResume(p) ==
    /\ Completed(p) /\ Running(p)
    /\ UNCHANGED invocations
    /\ \E out \in After(frame[p], result[p], LEAGUES_CACHE) : Proceed(p, out)

\* Lines 1024-1073: parse_yahoo_roster returns to the suspended tool, whose
\* code runs on to the wait of line 1027 or to its end.
ParseReturns(p) ==
    /\ pc[p] = "await"
    /\ frame[p].stage = "parse_yahoo_roster"
    /\ UNCHANGED invocations
    /\ \E out \in Parse(frame[p], LEAGUES_CACHE) : Proceed(p, out)

\* Lines 1027-1073: the optimizer's external sources have answered; the
\* tool's code runs on, without suspension, to its result.
EnhanceReturns(p) ==
    /\ pc[p] = "await"
    /\ frame[p].stage = "enhance_with_external_data"
    /\ UNCHANGED invocations
    /\ Proceed(p, End(LineupResult(frame[p], frame[p].players), frame[p],
                      LEAGUES_CACHE))

----------------------------------------------------------------------------
(* ToolSpec: tasks running the data tools concurrently over the gateway,    *)
(* with time passing.  The upstream answers each endpoint with a payload of *)
(* the endpoint's kind, with a JSON array, or with an error status.  The    *)
(* token endpoint grants no exchange here: a refresh started on a 401 gets  *)
(* a failure for answer and the call raises (Spec and RetrySpec cover the   *)
(* retry after a successful refresh).                                       *)

LeagueKeys == { "461.l.1" }

Mine == Team("461.l.1.t.1", "Mine", 1, "other", 2)
ByGuid == Team("461.l.1.t.2", "ByGuid", 0, YAHOO_GUID, 1)
Theirs == Team("461.l.1.t.3", "Theirs", 0, "other", 1)

LeaguesPayloads == { LeaguesPayload(<<League("461.l.1", "One")>>), LeaguesPayload(<< >>) }
TeamsPayloads == { TeamsPayload(<<Theirs, Mine>>), TeamsPayload(<<Theirs>>),
                   TeamsPayload(<< >>) }
PlayersPayloads == { PlayersPayload(<<Player("Brown", "WR", 2), Player("Adams", "QB", 1)>>),
                     PlayersPayload(<< >>) }
StandingsPayloads == { [fantasy_content |-> [league |-> [standings |-> << >>]]] }
MatchupsPayloads == { [fantasy_content |-> [team |-> [matchups |-> << >>]]] }

\* A roster with more than BENCH_SHOWN players beyond the starters, and a
\* roster of starters only.
FullRoster == << Rostered("Hurts", "QB", 20, 19), Rostered("Adams", "WR", 15, 14),
                Rostered("Brown", "WR", 9, 9), Rostered("Chase", "WR", 14, 13),
                Rostered("Diggs", "WR", 9, 10), Rostered("Evans", "WR", 12, 12),
                Rostered("Ford", "RB", 11, 11), Rostered("Gibbs", "RB", 13, 13) >>
ShortRoster == << Rostered("Gibbs", "RB", 13, 13), Rostered("Hurts", "QB", 20, 19) >>
RosterPayloads == { RosterPayload(FullRoster), RosterPayload(ShortRoster) }

\* The payloads the upstream may return for an endpoint.
PayloadsFor(e) ==
    IF e = << >> THEN {}
    ELSE {JsonArray} \cup
         (IF e = LeaguesEndpoint THEN LeaguesPayloads
          ELSE IF e \in { TeamsEndpoint(k) : k \in LeagueKeys } THEN TeamsPayloads
          ELSE IF e \in { StandingsEndpoint(k) : k \in LeagueKeys } THEN StandingsPayloads
          ELSE IF e[1] \in { "league/" \o k \o "/players" : k \in LeagueKeys }
               THEN PlayersPayloads
          ELSE IF Len(e) = 1 /\ e \in { RosterEndpoint(t.team_key) : t \in {Mine, ByGuid, Theirs} }
               THEN RosterPayloads
          ELSE MatchupsPayloads)

ToolResponses(e) ==
    [status : {200}, json : PayloadsFor(e)]
        \cup [status : {401, 500}, text : {LongBody}]

\* The invocations the host makes.
ToolInputs ==
    [tool : {"ff_get_leagues"}, args : {[league_key |-> ""]}]
    \cup [tool : {"ff_get_standings", "ff_get_draft_results"},
          args : [league_key : LeagueKeys]]
    \cup [tool : {"ff_get_roster"}, args : [league_key : LeagueKeys]]
    \cup [tool : {"ff_get_matchup", "ff_get_optimal_lineup"},
          args : [league_key : LeagueKeys, week : {0}]]
    \cup [tool : {"ff_get_players"},
          args : [league_key : LeagueKeys, position : {"all"}, count : {1}]]
    \cup [tool : {"ff_get_draft_rankings"},
          args : [league_key : LeagueKeys, position : {"all"}, count : {1}]]
    \cup [tool : {"ff_get_waiver_wire"},
          args : [league_key : LeagueKeys, position : {"all"}, sort : {"rank"}, count : {1}]]

ToolNext ==
    \/ \E p \in Procs : Collect(p)
    \/ \E p \in Procs : ToolResume(p)
    \/ \E p \in Procs, i \in ToolInputs : Quiet /\ ToolStart(p, i.tool, i.args)
    \/ \E p \in Procs : Quiet /\ ParseReturns(p)
    \/ \E p \in Procs : Quiet /\ EnhanceReturns(p)
    \/ \E p \in Procs : Quiet /\ Acquire(p)
    \/ \E p \in Procs : \E r \in ToolResponses(endpoint[p]) : Quiet /\ Respond200(p, r)
    \/ \E p \in Procs : \E r \in ToolResponses(endpoint[p]) : Quiet /\ Respond401(p, r)
    \/ \E p \in Procs : \E r \in ToolResponses(endpoint[p]) : Quiet /\ RespondError(p, r)
    \/ \E p \in Procs : Quiet /\ Timeout(p)
    \/ \E p \in Procs : \E a \in TokenAnswers(p) : Quiet /\ RefreshReceiveCall(p, a)
    \/ \E p \in Procs : Quiet /\ ResponseText(p)
    \/ Quiet /\ Tick

ToolSpec == Init /\ [][ToolNext]_vars

----------------------------------------------------------------------------
(* Properties *)

IsPrefix(a, b) == Len(a) <= Len(b) /\ \A i \in 1..Len(a) : a[i] = b[i]

\* text[:200], computed from the lengths.
Truncated(text) == [tag |-> text.tag, len |-> IF text.len > 200 THEN 200 ELSE text.len]

\* Task p enters an invocation of yahoo_api_call in this step: a new logical
\* call, or the retry after a refresh.
Starting(p) == pc[p] = "idle" /\ pc'[p] # "idle" /\ op'[p] = "call"
Retrying(p) == /\ op[p] = "call" /\ pc[p] = "refresh_resp"
               /\ pc'[p] \in {"done", "acquire", "request"}
Entering(p) == Starting(p) \/ Retrying(p)

\* C1: a logical call of yahoo_api_call invokes refresh_yahoo_token at most
\* once, whatever the upstream answers (401 on every request included), and
\* this holds for each of several interleaved calls.
C1_AtMostOneRefresh == \A p \in Procs : refreshes[p] <= 1

\* A call answered 401 on the original request and on the retry, while the
\* other task has invoked its own refresh.
C1_Witness ==
    \E p, q \in Procs :
        /\ p # q
        /\ pc[p] = "failed" /\ response[p].status = 401
        /\ requests[p] = 2 /\ refreshes[p] = 1
        /\ refreshes[q] = 1

\* The steps of an invocation, in the order of the code.
FullLog(uc) == LookupLog(uc) \o RequestLog \o (IF uc THEN <<"store">> ELSE << >>)

C2_LogOrder ==
    \A p \in Procs : op[p] = "call" => IsPrefix(log[p], FullLog(use_cache[p]))

Stored(e) ==
    /\ e \in DOMAIN cache'
    /\ \/ e \notin DOMAIN cache
       \/ cache'[e].payload # cache[e].payload
       \/ cache'[e].ttl > cache[e].ttl

C2_Step ==
    /\ \A p \in Procs :
          /\ requests'[p] = requests[p] + 1 =>
                /\ HasBudget(window) /\ window' = Append(window, 0)
                /\ IF pc[p] = "acquire"
                   THEN Head(waiters) = p
                   ELSE /\ waiters = << >>
                        /\ Entering(p)
                        /\ ~(use_cache'[p] /\ CacheHit(cache, endpoint'[p]))
          /\ (pc[p] # "acquire" /\ pc'[p] = "acquire") =>
                /\ Entering(p)
                /\ ~(use_cache'[p] /\ CacheHit(cache, endpoint'[p]))
          /\ pc'[p] = "request" /\ pc[p] # "request" =>
                requests'[p] = requests[p] + 1
    /\ \A e \in Endpoints :
          Stored(e) =>
             \E p \in Procs :
                /\ pc[p] = "request" /\ pc'[p] = "done"
                /\ endpoint[p] = e /\ use_cache[p]
                /\ result'[p] = Return(cache'[e].payload)

\* C2: an invocation sends its request only after its own cache lookup missed
\* (or use_cache is false) and after rate_limiter.acquire() let it pass; the
\* cache is written only by an invocation whose request returned; the order
\* lookup, acquire, request, store is never permuted.
C2_Order == []C2_LogOrder /\ [][C2_Step]_vars

\* A cached call that missed, passed the rate limiter, sent its request and
\* stored the answer.
C2_Witness ==
    \E p \in Procs :
        /\ pc[p] = "done"
        /\ log[p] = <<"lookup", "acquire", "request", "store">>
        /\ window # << >>

\* A cache hit at the entry of an invocation.
C3_Hit(p) ==
    (Entering(p) /\ use_cache'[p] /\ CacheHit(cache, endpoint'[p])) =>
        /\ pc'[p] = "done"
        /\ result'[p] = Return(cache[endpoint'[p]].payload)
        /\ requests'[p] = requests[p] /\ refreshes'[p] = refreshes[p]
        /\ window' = window /\ waiters' = waiters /\ cache' = cache

\* Task p starts a call with use_cache for the endpoint of a successful
\* cached call whose TTL has not elapsed, no clear since.
SecondCall(p) ==
    /\ Starting(p) /\ use_cache'[p]
    /\ served.ttl > 0 /\ served.endpoint = endpoint'[p]

C3_Second(p) ==
    SecondCall(p) =>
        /\ pc'[p] = "done" /\ requests'[p] = 0 /\ window' = window
        /\ result'[p] = Return(cache[endpoint'[p]].payload)

\* C3 (as amended): an invocation with use_cache that finds an unexpired
\* entry returns its payload without acquire(), request, refresh or store;
\* so a call made after a successful cached call for the same endpoint, before
\* the TTL elapses and with no clear in between, sends no request and returns
\* the payload the cache holds then: the last one stored for the endpoint.
C3_CacheHit == [][\A p \in Procs : C3_Hit(p) /\ C3_Second(p)]_vars

\* C3 as claimed: a hit returns the cached payload without acquire(),
\* request or refresh, and the second call returns the same payload as the
\* successful cached call before it.
C3_SamePayload ==
    [][\A p \in Procs :
          /\ C3_Hit(p)
          /\ SecondCall(p) =>
                /\ pc'[p] = "done" /\ requests'[p] = 0
                /\ result'[p] = Return(served.payload)]_vars

\* A call served from the cache while the other task waits for its answer.
C3_Witness ==
    \E p, q \in Procs :
        /\ pc[p] = "done" /\ op[p] = "call" /\ use_cache[p]
        /\ requests[p] = 0 /\ result[p].kind = "return"
        /\ served = Served(endpoint[p], result[p].value, cache[endpoint[p]].ttl)
        /\ pc[q] = "request" /\ endpoint[q] = endpoint[p]

\* The outcome of a 200 answer, and what it leaves alone.
C4_Returned ==
    \A p \in Procs :
        (pc[p] = "done" /\ op[p] = "call" /\ response[p].status = 200) =>
            /\ result[p] = Return(response[p].json)
            /\ use_cache[p] =>
                  /\ endpoint[p] \in DOMAIN cache
                  /\ cache[endpoint[p]] =
                        [payload |-> response[p].json, ttl |-> DEFAULT_TTL]

C4_Frame ==
    \A p \in Procs :
        (pc[p] = "request" /\ pc'[p] = "done") =>
            \A e \in Endpoints :
                (e # endpoint[p] \/ ~use_cache[p]) =>
                    /\ e \in DOMAIN cache' <=> e \in DOMAIN cache
                    /\ e \in DOMAIN cache => cache'[e] = cache[e]

\* C4: when the upstream answers 200, yahoo_api_call returns the payload of
\* the answer, and stores it under the endpoint (with the default TTL, the
\* other entries untouched) if and only if use_cache is true.
C4_Store200 == []C4_Returned /\ [][C4_Frame]_vars

\* A 200 answer to a call with use_cache=false for an endpoint whose cached
\* entry is another payload.
C4_Witness ==
    \E p \in Procs :
        /\ pc[p] = "done" /\ op[p] = "call" /\ response[p].status = 200
        /\ ~use_cache[p]
        /\ endpoint[p] \in DOMAIN cache
        /\ cache[endpoint[p]].payload # response[p].json

\* A call that failed after a 401 and an unsuccessful refresh.
AuthFailure(p) ==
    /\ op[p] = "call" /\ pc[p] = "failed"
    /\ response[p].status = 401 /\ retry_on_auth_fail[p]

C5_Raised ==
    \A p \in Procs :
        AuthFailure(p) =>
            /\ result[p] = Raise("Exception",
                  <<"Yahoo API auth failed and token refresh failed: ",
                    Truncated(response[p].text)>>)
            /\ requests[p] = 1 /\ refreshes[p] = 1

C5_Frame ==
    \A p \in Procs :
        (~Completed(p) /\ AuthFailure(p)') =>
            /\ cache' = cache /\ window' = window /\ requests' = requests

\* C5 as claimed: a 401 to an invocation that may retry, followed by a
\* refresh that does not succeed, always ends the call with the auth-failed
\* exception carrying the 401 body cut to 200 characters, with no further
\* request and no cache store.
C5_AuthFailed == []C5_Raised /\ [][C5_Frame]_vars

\* The call ends with the auth failure or, when the read of the 401 body
\* ends in a timeout, with the timeout error.
C5_RaisedOrTimedOut ==
    \A p \in Procs :
        AuthFailure(p) =>
            /\ \/ result[p] = Raise("Exception",
                      <<"Yahoo API auth failed and token refresh failed: ",
                        Truncated(response[p].text)>>)
               \/ result[p] = TimedOut
            /\ requests[p] = 1 /\ refreshes[p] = 1

\* C5 (as amended): a 401 to an invocation that may retry, followed by a
\* refresh that does not succeed, ends the call with the auth-failed
\* exception carrying the 401 body cut to 200 characters, unless the read of
\* that body (line 89) ends in a timeout, whose error then leaves the call;
\* either way no further request is sent and nothing is stored in the cache.
C5_AuthFailedOrTimeout == []C5_RaisedOrTimedOut /\ [][C5_Frame]_vars

\* The token endpoint refused the exchange of a call whose 401 body was longer
\* than 200 characters.
C5_Witness ==
    \E p \in Procs :
        /\ AuthFailure(p)
        /\ HasCredentials(environ)
        /\ response[p].text.len > 200
        /\ result[p].msg[2].len = 200

\* A call that failed on a status the refresh path does not handle.
ApiFailure(p) ==
    /\ op[p] = "call" /\ pc[p] = "failed"
    /\ response[p].status \notin {0, 200}
    /\ ~(response[p].status = 401 /\ retry_on_auth_fail[p])

C6_Raised ==
    \A p \in Procs :
        ApiFailure(p) =>
            result[p] = Raise("Exception",
                <<"Yahoo API error ", response[p].status, ": ",
                  Truncated(response[p].text)>>)

C6_Frame ==
    \A p \in Procs :
        (~Completed(p) /\ ApiFailure(p)') =>
            /\ pc[p] = "request"
            /\ refreshes' = refreshes /\ requests' = requests
            /\ UNCHANGED <<tokenVars, cache, window>>

\* C6: any other status than 200 (a 401 on the retry included) ends the call
\* with the API-error exception carrying the status and the body cut to 200
\* characters, and starts no refresh.
C6_ApiError == []C6_Raised /\ [][C6_Frame]_vars

\* A 401 with a long body on the retry after a successful refresh.
C6_Witness ==
    \E p \in Procs :
        /\ ApiFailure(p)
        /\ response[p].status = 401 /\ refreshes[p] = 1 /\ requests[p] = 2
        /\ response[p].text.len > 200
        /\ result[p].msg[4].len = 200

\* C7: refresh_yahoo_token never raises: in every environment and for every
\* outcome of the token endpoint it returns a record whose status is
\* 'success' or 'error'.
C7_NeverRaises ==
    \A p \in Procs :
        (op[p] = "refresh_tool" /\ Completed(p)) =>
            /\ pc[p] = "done"
            /\ result[p].kind = "return"
            /\ result[p].value.status \in {"success", "error"}

\* A 200 answer without access_token: the TypeError of the environment store
\* is caught and reported, after the global was set to None.
C7_Witness ==
    \E p \in Procs :
        /\ op[p] = "refresh_tool" /\ pc[p] = "done"
        /\ result[p].value = RefreshError(<<"Error refreshing token: ", "TypeError">>)
        /\ YAHOO_ACCESS_TOKEN = NoToken

\* The step in which refresh_yahoo_token returns 'success'.
RefreshSucceeds(p) ==
    /\ op[p] = "refresh_tool" /\ pc[p] = "refresh_resp"
    /\ pc'[p] = "done" /\ result'[p].value.status = "success"

C8_Stored(p) ==
    RefreshSucceeds(p) =>
        /\ YAHOO_ACCESS_TOKEN' = AccessToken(exchange[p].serial)
        /\ environ'.YAHOO_ACCESS_TOKEN = AccessToken(exchange[p].serial)
        /\ environ'.YAHOO_REFRESH_TOKEN =
              IF exchange[p].rotated THEN RefreshToken(exchange[p].serial)
              ELSE environ.YAHOO_REFRESH_TOKEN
        /\ environ'.YAHOO_CONSUMER_KEY = environ.YAHOO_CONSUMER_KEY
        /\ environ'.YAHOO_CONSUMER_SECRET = environ.YAHOO_CONSUMER_SECRET

\* C8: when refresh_yahoo_token returns 'success', the global access token
\* and its environment copy are the access_token of the answer; the stored
\* refresh credential is the answer's refresh_token if the answer carries one
\* that differs from the one the call presented, and is left as it is if the
\* answer carries none or the same one.
C8_SuccessStores == [][\A p \in Procs : C8_Stored(p)]_vars

\* A successful refresh whose answer rotated the refresh credential.
C8_Witness ==
    \E p \in Procs :
        /\ op[p] = "refresh_tool" /\ pc[p] = "done"
        /\ result[p].value.status = "success"
        /\ \E k \in 1..MaxExchanges :
              /\ YAHOO_ACCESS_TOKEN = AccessToken(k)
              /\ environ.YAHOO_ACCESS_TOKEN = AccessToken(k)
              /\ environ.YAHOO_REFRESH_TOKEN = RefreshToken(k)

\* Two exchanges were accepted and both refreshes returned 'success'.
BothRefreshed ==
    /\ exchanges = 2 /\ Len(applied) = 2
    /\ \A p \in Procs : pc[p] \notin {"refresh", "refresh_resp"}

\* C9: after two refreshes (sequential or interleaved) whose exchanges the
\* token endpoint both accepted and which both returned 'success', the
\* access credential is the one issued by one of the two exchanges and the
\* stored refresh credential is the one of the latest exchange.
C9_SafeTwice ==
    BothRefreshed =>
        /\ YAHOO_ACCESS_TOKEN \in {AccessToken(1), AccessToken(2)}
        /\ environ.YAHOO_ACCESS_TOKEN = YAHOO_ACCESS_TOKEN
        /\ environ.YAHOO_REFRESH_TOKEN = server_refresh

\* A call in progress, and the step in which its request times out.
Busy(p) == op[p] = "call" /\ ~Completed(p)

TimesOut(p) == pc[p] = "request" /\ pc'[p] = "failed" /\ response'[p] = response[p]

TimeoutEndsCall ==
    \A p \in Procs :
        TimesOut(p) =>
            /\ result'[p] = TimedOut
            /\ requests' = requests /\ refreshes' = refreshes
            /\ window' = window /\ cache' = cache

\* What holds of a timeout: it ends the call with the timeout error and
\* nothing more is sent.
NoRetryOnTimeout == [][TimeoutEndsCall]_vars

C11_Step ==
    \A p \in Procs :
        /\ requests'[p] = requests[p] + 1 =>
              /\ Len(window) < MAX_CALLS
              /\ window' = Append(window, 0)
        /\ pc[p] = "acquire" =>
              /\ pc'[p] \in {"acquire", "request"}
              /\ result'[p] = NoResult

\* C11: however many invocations run concurrently, the requests sent within
\* any window of WINDOW_SECONDS never number more than MAX_CALLS, and
\* acquire() only delays: no invocation fails for want of quota.
C11_RateLimited ==
    /\ [](/\ Len(window) <= MAX_CALLS
          /\ \A i \in 1..Len(window) : window[i] < WINDOW_SECONDS)
    /\ [][C11_Step]_vars

\* The window is full with one task's request while the other task waits in
\* acquire().
C11_Witness ==
    \E p, q \in Procs :
        /\ pc[p] = "request" /\ pc[q] = "acquire"
        /\ Len(window) = MAX_CALLS /\ waiters = <<q>>

\* An invocation with use_cache returns at its entry only what was stored
\* under its endpoint less than a TTL ago; without such a store it goes on to
\* the rate limiter and the request.
C12_Entry(p) ==
    (Entering(p) /\ use_cache'[p]) =>
        LET e == endpoint'[p]
        IN  /\ pc'[p] = "done" =>
                  /\ e \in DOMAIN stored
                  /\ stored[e].age < DEFAULT_TTL
                  /\ result'[p] = Return(stored[e].payload)
            /\ e \notin DOMAIN stored =>
                  /\ pc'[p] \in {"acquire", "request"}
                  /\ result'[p] = NoResult

\* C12: yahoo_api_call never returns a cached payload older than its TTL; a
\* call made after the TTL has elapsed misses and goes on to an upstream
\* request, whether or not the entry was cleared.
C12_NoStaleRead == [][\A p \in Procs : C12_Entry(p)]_vars

\* A hit on an entry in the last tick before it expires.
C12_Witness ==
    \E p \in Procs :
        /\ op[p] = "call" /\ pc[p] = "done" /\ requests[p] = 0
        /\ endpoint[p] \in DOMAIN stored
        /\ stored[endpoint[p]].age = DEFAULT_TTL - 1
        /\ result[p] = Return(stored[endpoint[p]].payload)

\* ---------------------------------------------------------------------------
\* ff_clear_cache and the calls after it.

\* pattern occurs in key as a run of consecutive characters.
IsSubstring(pattern, key) ==
    \E i \in 1..(Len(key) + 1) :
        \E j \in (i - 1)..Len(key) : SubSeq(key, i, j) = pattern

\* Task p runs ff_clear_cache in this step.
Clearing(p) == pc[p] = "idle" /\ pc'[p] = "done" /\ frame'[p].tool = "ff_clear_cache"

\* What a ff_clear_cache step does to the cache.
C13_Clear(p) ==
    Clearing(p) =>
        LET pattern == frame'[p].pattern
            removed(e) == pattern = NoPattern \/ IsSubstring(pattern, e)
        IN  /\ \A e \in DOMAIN cache :
                  IF removed(e) THEN e \notin DOMAIN cache'
                  ELSE e \in DOMAIN cache' /\ cache'[e] = cache[e]
            /\ DOMAIN cache' \subseteq DOMAIN cache
            /\ result'[p].kind = "return" /\ result'[p].value.status = "success"

\* What a cached call does with the cache it finds.
C13_Call(p) ==
    (Entering(p) /\ use_cache'[p]) =>
        LET e == endpoint'[p]
        IN  IF e \in DOMAIN cache
            THEN pc'[p] = "done" /\ result'[p] = Return(cache[e].payload)
                 /\ requests'[p] = requests[p]
            ELSE pc'[p] \in {"acquire", "request"}

\* C13: ff_clear_cache(pattern) removes exactly the entries whose endpoint
\* contains pattern and leaves every other entry as it was, ff_clear_cache()
\* removes every entry, and afterwards a call for an endpoint without an
\* entry goes upstream while a call for a kept entry is served from the cache.
C13_ClearFrame == [][\A p \in Procs : C13_Clear(p) /\ C13_Call(p)]_vars

\* ff_clear_cache("a") has just returned and the entry of "bc", which does
\* not contain "a", is still cached.
C13_Witness ==
    \E p \in Procs :
        /\ frame[p].tool = "ff_clear_cache" /\ pc[p] = "done"
        /\ frame[p].pattern = <<"a">>
        /\ DOMAIN cache = { <<"b", "c">> }

\* ---------------------------------------------------------------------------
\* The tools over the gateway.

\* Task p sends an upstream data request in this step.
Sends(p) == pc'[p] = "request" /\ pc[p] # "request"

\* The request is sent by yahoo_api_call for the endpoint the tool passed it,
\* after the cache lookup and the limiter's permit.
C14_Send(p) ==
    Sends(p) =>
        /\ frame'[p].tool # "none" /\ frame'[p].stage \notin {"start", "end"}
        /\ frame'[p].calls # << >>
        /\ endpoint'[p] = frame'[p].calls[Len(frame'[p].calls)]
        /\ use_cache'[p]
        /\ log'[p] = <<"lookup", "acquire", "request">>
        /\ window' = Append(window, 0)

\* C14: every upstream data request of a tool (league discovery, team lookup,
\* roster, matchup, standings, player listings, draft rankings) is sent by
\* yahoo_api_call after the cache lookup and the rate limiter, and an
\* upstream answer is only ever received by a task inside yahoo_api_call.
C14_ThroughGateway ==
    [][\A p \in Procs :
          /\ C14_Send(p)
          /\ response'[p] # response[p] /\ response'[p] # NoResponse => pc[p] = "request"]_vars

\* ff_get_roster has found the user's team and its roster request is out.
C14_Witness ==
    \E p \in Procs :
        /\ frame[p].tool = "ff_get_roster" /\ frame[p].stage = "body"
        /\ pc[p] = "request"
        /\ endpoint[p] = RosterEndpoint("461.l.1.t.1")
        /\ Len(frame[p].calls) = 2

\* Task p's tool takes the outcome of its teams fetch in this step.
TeamLookedUp(p) ==
    /\ frame[p].tool \in UserTeamTools /\ frame[p].stage = "get_user_team_info"
    /\ Completed(p) /\ frame'[p].stage # "get_user_team_info"

\* The teams fetch succeeded and no team of the payload is the user's.
NoTeamOwned(res) ==
    /\ res.kind = "return"
    /\ LET teams == Content(res.value, "league", "teams")
       IN  \A i \in 1..Len(teams) :
               /\ teams[i].is_owned_by_current_login # 1
               /\ teams[i].guid # YAHOO_GUID

\* The tool of task p ends with the missing-team failure, without a further
\* call.
MissingTeamReported(p) ==
    /\ pc'[p] = "failed" /\ frame'[p].stage = "end"
    /\ result'[p] = MissingTeam(frame[p].args)
    /\ frame'[p].calls = frame[p].calls

\* C15: ff_get_roster, ff_get_matchup and ff_get_optimal_lineup fail with the
\* missing-team failure, and make no team-level request, when the teams
\* payload was fetched and no team in it is the user's; and they report the
\* missing-team failure in that case only, not when the teams fetch failed.
C15_MissingTeamOnly ==
    [][\A p \in Procs :
          TeamLookedUp(p) => (MissingTeamReported(p) <=> NoTeamOwned(result[p]))]_vars

\* The tool of task p has ended.
Ended(p) == frame[p].tool # "none" /\ frame[p].stage = "end"

\* C16: every tool operation ends, whatever the input and the upstream
\* outcome, in a structured result or in a ToolError; no other exception
\* (the gateway's Exception, NameError, AttributeError, TimeoutError) leaves
\* a tool.
C16_TypedEnd ==
    \A p \in Procs :
        Ended(p) => \/ pc[p] = "done" /\ result[p].kind = "return"
                    \/ pc[p] = "failed" /\ result[p].kind = "raise"
                                        /\ result[p].exc = "ToolError"

\* ff_get_optimal_lineup has returned a lineup in task p.
LineupReturned(p) ==
    frame[p].tool = "ff_get_optimal_lineup" /\ Ended(p) /\ pc[p] = "done"

StarterNames(r) == { r.optimal_lineup[k].name : k \in 1..Len(r.optimal_lineup) }
BenchNames(r) == { r.bench[k].name : k \in 1..Len(r.bench) }

\* The bench entries are distinct non-starters, by descending composite score.
BenchSound(r) ==
    /\ StarterNames(r) \cap BenchNames(r) = {}
    /\ Cardinality(BenchNames(r)) = Len(r.bench)
    /\ \A k \in 1..(Len(r.bench) - 1) :
           r.bench[k].composite_score >= r.bench[k + 1].composite_score

\* ff_get_optimal_lineup: every roster player who is not a starter is on the
\* bench, nobody is both a starter and on the bench, the bench is in
\* descending order of composite score, and starters plus bench are
\* total_players players.
C17_BenchComplete ==
    \A p \in Procs :
        LineupReturned(p) =>
            LET r == result[p].value
                players == frame[p].players
            IN  /\ BenchSound(r)
                /\ \A i \in 1..Len(players) :
                       players[i].name \notin StarterNames(r) =>
                           players[i].name \in BenchNames(r)
                /\ Len(r.optimal_lineup) + Len(r.bench) = r.analysis.total_players

\* C17: in the result of ff_get_optimal_lineup, total_players is the size of
\* the roster; the bench list holds roster players who are not starters,
\* each once, in descending order of composite score; it holds all of them
\* when they are at most five, and otherwise the five with the highest
\* scores, so that starters plus bench are total_players players exactly
\* when at most five players do not start.
C17_BenchShown ==
    \A p \in Procs :
        LineupReturned(p) =>
            LET r == result[p].value
                players == frame[p].players
                rest == { i \in 1..Len(players) : players[i].name \notin StarterNames(r) }
                left == { i \in rest : players[i].name \notin BenchNames(r) }
            IN  /\ BenchSound(r)
                /\ r.analysis.total_players = Len(players)
                /\ StarterNames(r) \cup BenchNames(r) \subseteq
                       { players[i].name : i \in 1..Len(players) }
                /\ Len(r.bench) = IF Cardinality(rest) < BENCH_SHOWN
                                  THEN Cardinality(rest) ELSE BENCH_SHOWN
                /\ \A i \in left : \A k \in 1..Len(r.bench) :
                       players[i].composite_score <= r.bench[k].composite_score
                /\ (Len(r.optimal_lineup) + Len(r.bench) = r.analysis.total_players)
                       <=> Cardinality(rest) <= BENCH_SHOWN

\* A lineup for a roster of eight: two starters, five of the six others shown.
C17_Witness ==
    \E p \in Procs :
        /\ LineupReturned(p)
        /\ result[p].value.analysis.total_players = 8
        /\ Len(result[p].value.optimal_lineup) = 2
        /\ Len(result[p].value.bench) = BENCH_SHOWN

\* ff_get_standings of task p takes a fetched standings payload in this step.
StandingsFetched(p) ==
    /\ frame[p].tool = "ff_get_standings" /\ frame[p].stage = "body"
    /\ Completed(p) /\ result[p].kind = "return"
    /\ frame'[p].stage = "end"

\* C18: whenever its standings fetch succeeds, ff_get_standings returns a
\* result whose standings list is in ascending order of rank and whose
\* total_teams_found is the length of the list (the list being the
\* placeholder built from the league's teams when the payload has no
\* standings).
C18_StandingsSorted ==
    [][\A p \in Procs :
          StandingsFetched(p) =>
              /\ pc'[p] = "done" /\ result'[p].kind = "return"
              /\ LET r == result'[p].value
                 IN  /\ r.total_teams_found = Len(r.standings)
                     /\ \A k \in 1..(Len(r.standings) - 1) :
                            r.standings[k].rank <= r.standings[k + 1].rank]_vars

\* ff_get_waiver_wire of task p ends in this step.
WaiverEnds(p) ==
    /\ frame'[p].tool = "ff_get_waiver_wire" /\ frame'[p].stage = "end"
    /\ frame[p].stage # "end"

\* C19: ff_get_waiver_wire(league_key, position, sort, count) returns a
\* result carrying the given league_key, position and sort, with
\* total_players the number of players listed, and fails only with
\* ToolError, when no players could be retrieved.
C19_WaiverResult ==
    [][\A p \in Procs :
          WaiverEnds(p) =>
              LET args == frame'[p].args
              IN  \/ /\ pc'[p] = "done" /\ result'[p].kind = "return"
                     /\ result'[p].value.league_key = args.league_key
                     /\ result'[p].value.position = args.position
                     /\ result'[p].value.sort = args.sort
                     /\ result'[p].value.total_players = Len(result'[p].value.players)
                     /\ result'[p].value.players # << >>
                  \/ /\ pc'[p] = "failed" /\ result'[p].exc = "ToolError"
                     /\ frame'[p].calls # << >>]_vars

\* The helpers that turn the outcome of their fetch into a list or a record.
HelperStages == {"get_user_team_info", "get_all_teams_info", "get_draft_rankings"}
HelperResult(stage, res) ==
    CASE stage = "get_user_team_info" -> get_user_team_info(res)
      [] stage = "get_all_teams_info" -> get_all_teams_info(res)
      [] stage = "get_draft_rankings" -> get_draft_rankings(res)

\* The fetch of the helper running in task p has failed: yahoo_api_call
\* raised, or returned a payload on which the parse raises.
FetchFailed(p) ==
    /\ Completed(p) /\ Running(p) /\ frame[p].stage \in HelperStages
    /\ result[p].kind = "raise" \/ ~IsObject(result[p].value)

\* C20: what get_user_team_info, get_all_teams_info and get_draft_rankings
\* (and get_waiver_wire_players) hand their caller after an upstream or parse
\* failure differs from what they hand it after any successful fetch,
\* a fetch that matched nothing included.
C20_Distinguishable ==
    \A p \in Procs :
        FetchFailed(p) =>
            \A json \in PayloadsFor(endpoint[p]) \ {JsonArray} :
                HelperResult(frame[p].stage, result[p])
                    # HelperResult(frame[p].stage, Return(json))

\* ---------------------------------------------------------------------------
\* Requests, permits and the cache on every path of a logical call.

\* The invocation of task p passes rate_limiter.acquire() in this step.
Acquired(p) ==
    /\ Len(log'[p]) >= 2
    /\ SubSeq(log'[p], Len(log'[p]) - 1, Len(log'[p])) = RequestLog
    /\ Sends(p)

\* A logical call has sent at most two requests, and a refresh runs only
\* after the first of them.
C21_AtMostTwo ==
    \A p \in Procs :
        op[p] = "call" =>
            /\ requests[p] <= 2
            /\ pc[p] \in {"refresh", "refresh_resp"} => requests[p] = 1
            /\ pc[p] = "request" => requests[p] \in {1, 2}

\* Each completion of acquire() is followed at once by one request, and no
\* request is sent otherwise; the retry after a refresh is a new invocation
\* that looks the cache up again and sends nothing on a hit.
C21_Step ==
    \A p \in Procs :
        /\ Acquired(p) <=> requests'[p] = requests[p] + 1
        /\ Acquired(p) => window' = Append(window, 0) /\ pc'[p] = "request"
        /\ Retrying(p) =>
              /\ use_cache'[p] = use_cache[p] /\ endpoint'[p] = endpoint[p]
              /\ IsPrefix(LookupLog(use_cache[p]), log'[p])
              /\ pc'[p] = "done" <=> (use_cache[p] /\ CacheHit(cache, endpoint[p]))
              /\ pc'[p] = "done" => requests'[p] = requests[p]

\* C21: a logical yahoo_api_call sends at most two upstream requests, the
\* original and at most one retry; it completes rate_limiter.acquire() once
\* for each request it sends; and the retry after a successful refresh looks
\* the cache up again and acquires a new permit before its request.
C21_RequestsAndPermits == []C21_AtMostTwo /\ [][C21_Step]_vars

\* The retry of a cached call is out: second request, fresh lookup and permit.
C21_Witness ==
    \E p \in Procs :
        /\ op[p] = "call" /\ pc[p] = "request"
        /\ requests[p] = 2 /\ refreshes[p] = 1
        /\ log[p] = <<"lookup", "acquire", "request">>

\* Entry e is written in this step: it is new, or its payload or expiry changed.
\* Then a caching invocation for e has just received its payload with 200.
C22_Written(e) ==
    Stored(e) =>
        \E p \in Procs :
            /\ pc[p] = "request" /\ pc'[p] = "done"
            /\ endpoint[p] = e /\ use_cache[p]
            /\ response'[p].status = 200
            /\ cache'[e] = [payload |-> response'[p].json, ttl |-> DEFAULT_TTL]

\* An invocation of task p fails in this step.
Fails(p) == pc[p] # "failed" /\ pc'[p] = "failed"

\* C22: whatever invocations of yahoo_api_call have run, interleaved or not,
\* every entry of the response cache is a payload the upstream returned with
\* HTTP 200 to a request for exactly that endpoint, and an invocation that
\* fails (non-200, failed authentication, timeout) leaves the cache as it was.
C22_CacheProvenance ==
    /\ [](\A e \in DOMAIN cache :
             e \in DOMAIN stored /\ cache[e].payload = stored[e].payload)
    /\ [][/\ \A e \in Endpoints : C22_Written(e)
          /\ \A p \in Procs : Fails(p) => cache' = cache]_vars

\* Both endpoints are cached, with different payloads, and a call has failed.
C22_Witness ==
    /\ DOMAIN cache = Endpoints
    /\ cache[<<"a", "b">>].payload # cache[<<"b", "c">>].payload
    /\ \E p \in Procs : pc[p] = "failed" /\ op[p] = "call"

\* Task p takes a step of a logical call made with use_cache=false.
UncachedStep(p) ==
    /\ op'[p] = "call" /\ ~use_cache'[p]
    /\ op[p] = "call" => ~use_cache[p]
    /\ <<pc[p], log[p], requests[p]>> # <<pc'[p], log'[p], requests'[p]>>

\* Such a step leaves the cache alone; at the entry of an invocation, the
\* retry included, it goes to the rate limiter without a lookup.
C23_Step ==
    \A p \in Procs :
        /\ UncachedStep(p) => cache' = cache
        /\ (Entering(p) /\ ~use_cache'[p]) =>
              /\ pc'[p] \in {"acquire", "request"}
              /\ "lookup" \notin { log'[p][i] : i \in 1..Len(log'[p]) }
        /\ Retrying(p) => use_cache'[p] = use_cache[p]

\* An uncached call that has returned has sent a request and logged neither
\* a lookup nor a store.
C23_Returned ==
    \A p \in Procs :
        (op[p] = "call" /\ ~use_cache[p] /\ pc[p] = "done") =>
            /\ requests[p] >= 1
            /\ log[p] = RequestLog

\* C23: yahoo_api_call with use_cache=false neither reads nor writes the
\* response cache on any path, the retry after a successful refresh included
\* (use_cache is passed on unchanged): none of its steps changes the cache,
\* and it always sends an upstream request.
C23_Uncached == []C23_Returned /\ [][C23_Step]_vars

\* An uncached call has returned from its retry with a payload other than
\* the one cached for its endpoint, which is still there.
C23_Witness ==
    \E p \in Procs :
        /\ op[p] = "call" /\ ~use_cache[p] /\ pc[p] = "done"
        /\ requests[p] = 2
        /\ endpoint[p] \in DOMAIN cache
        /\ cache[endpoint[p]].payload # result[p].value

----------------------------------------------------------------------------
(* refresh_yahoo_token's error returns and the credentials *)

\* Task p's refresh_yahoo_token returns a record with status "error" in this
\* step.
RefreshReturnsError(p) ==
    /\ op'[p] = "refresh_tool"
    /\ result[p].kind = "none"
    /\ result'[p].kind = "return"
    /\ result'[p].value.status = "error"

\* The error return is the early one of lines 104-108.
ReturnsMissingCredentials(p) ==
    /\ RefreshReturnsError(p)
    /\ result'[p].value = MissingCredentialsResult

\* The statements of the returning step leave both credentials as they were.
CredentialsKept ==
    /\ YAHOO_ACCESS_TOKEN' = YAHOO_ACCESS_TOKEN
    /\ environ'.YAHOO_ACCESS_TOKEN = environ.YAHOO_ACCESS_TOKEN
    /\ environ'.YAHOO_REFRESH_TOKEN = environ.YAHOO_REFRESH_TOKEN

\* C24: whenever refresh_yahoo_token returns status "error", the process-wide
\* access credential and the stored refresh credential are what they were
\* before the call's statements ran; with missing credentials the token
\* endpoint is not contacted.
C24_ErrorKeepsCredentials ==
    [][\A p \in Procs :
          /\ RefreshReturnsError(p) => CredentialsKept
          /\ ReturnsMissingCredentials(p) =>
                /\ pc[p] = "idle"
                /\ exchanges' = exchanges
                /\ exchange'[p] = NoExchange]_vars

\* What holds of the error returns: the early return, the non-200 answer
\* and an exception raised before line 129 leave the credentials alone.
EarlyErrorsKeep ==
    [][\A p \in Procs :
          /\ RefreshReturnsError(p) /\ YAHOO_ACCESS_TOKEN' # YAHOO_ACCESS_TOKEN
                => result'[p].value.message = <<"Error refreshing token: ", "TypeError">>
          /\ ReturnsMissingCredentials(p) =>
                /\ pc[p] = "idle"
                /\ exchanges' = exchanges]_vars

----------------------------------------------------------------------------
(* RetrySpec: calls of yahoo_api_call for one endpoint, without the cache,  *)
(* next to ff_refresh_token calls, with a token endpoint that serves        *)
(* MaxExchanges grant exchanges.                                            *)

RetryNext ==
    \/ \E p \in Procs : Collect(p)
    \/ \E p \in Procs, e \in FairEndpoints : Quiet /\ StartCall(p, e, FALSE)
    \/ \E p \in Procs : Quiet /\ Acquire(p)
    \/ \E p \in Procs, r \in FairResponses : Quiet /\ Respond200(p, r)
    \/ \E p \in Procs, r \in FairResponses : Quiet /\ Respond401(p, r)
    \/ \E p \in Procs, r \in FairResponses : Quiet /\ RespondError(p, r)
    \/ \E p \in Procs : Quiet /\ Timeout(p)
    \/ \E p \in Procs : Quiet /\ StartRefreshTool(p)
    \/ \E p \in Procs : Quiet /\ TokenExchange(p, FALSE, MaxExchanges)
    \/ \E p \in Procs : \E a \in TokenAnswers(p) : Quiet /\ RefreshReceiveCall(p, a)
    \/ \E p \in Procs : Quiet /\ ResponseText(p)
    \/ \E p \in Procs : \E a \in TokenAnswers(p) : Quiet /\ RefreshReceiveTool(p, a)
    \/ Quiet /\ Tick

RetrySpec == Init /\ [][RetryNext]_vars

\* Task p sends the retry request of its logical call in this step.
RetrySends(p) == Sends(p) /\ op'[p] = "call" /\ requests'[p] = 2

\* The credentials that successful refresh exchanges have written so far.
WrittenBySuccess(done) == { AccessToken(done[i]) : i \in 1..Len(done) }

\* C25: the retry request sent after a successful refresh carries an access
\* credential written by a successful refresh exchange: not the credential
\* just rejected and not None, whatever other calls and refreshes did between
\* the refresh and the retry.
C25_RetryCredential ==
    [][\A p \in Procs : RetrySends(p) =>
          /\ headers'[p] # NoToken
          /\ headers'[p] # headers[p]
          /\ headers'[p] \in WrittenBySuccess(applied')]_vars

----------------------------------------------------------------------------
(* LeagueSpec: the tools that go through discover_leagues, and              *)
(* ff_clear_cache, run concurrently over the gateway.  The upstream       *)
(* answers with a payload or with status 500, or not at all.                *)

MaxLeagueRuns == 3

\* A discovery payload whose second league cannot be parsed.
BrokenLeagues ==
    LeaguesPayload(<<League("461.l.2", "Two"), JsonArray, League("461.l.1", "One")>>)

LeagueResponses(e) ==
    [status : {200},
     json : IF e = LeaguesEndpoint
            THEN LeaguesPayloads
                   \cup { BrokenLeagues, JsonArray,
                          LeaguesPayload(<<League("461.l.2", "Two"),
                                           League("461.l.1", "One")>>) }
            ELSE IF e \in { TeamsEndpoint(k) : k \in LeagueKeys }
            THEN { TeamsPayload(<<Theirs, Mine>>) }
            ELSE IF e = << >> THEN {}
            ELSE { JsonArray }]
        \cup [status : {500}, text : {LongBody}]

LeagueInputs ==
    [tool : {"ff_get_leagues"}, args : {[league_key |-> ""]}]
    \cup [tool : {"ff_get_league_info"}, args : [league_key : LeagueKeys]]
    \cup [tool : {"ff_get_draft_rankings"},
          args : {[league_key |-> "", position |-> "all", count |-> 1]}]

LeagueNext ==
    \/ \E p \in Procs : Collect(p)
    \/ \E p \in Procs : ToolResume(p)
    \/ \E p \in Procs, i \in LeagueInputs :
          Quiet /\ ToolStartUpTo(p, i.tool, i.args, MaxLeagueRuns)
    \/ \E p \in Procs, pattern \in {NoPattern, << >>, <<"users">>} :
          Quiet /\ ff_clear_cache(p, pattern)
    \/ \E p \in Procs : Quiet /\ Acquire(p)
    \/ \E p \in Procs : \E r \in LeagueResponses(endpoint[p]) : Quiet /\ Respond200(p, r)
    \/ \E p \in Procs : \E r \in LeagueResponses(endpoint[p]) : Quiet /\ RespondError(p, r)
    \/ \E p \in Procs : Quiet /\ Timeout(p)
    \/ Quiet /\ Tick

LeagueSpec == Init /\ [][LeagueNext]_vars

----------------------------------------------------------------------------
(* discover_leagues and LEAGUES_CACHE *)

DiscoveryTools == {"ff_get_leagues", "ff_get_league_info"}

\* The host invokes in task p a tool that begins with discover_leagues.
DiscoverStarts(p) ==
    /\ pc[p] = "idle" /\ frame[p].tool = "none"
    /\ frame'[p].tool \in DiscoveryTools

\* The tool of task p has entered yahoo_api_call for the discovery endpoint.
DiscoveryCalled(p) ==
    /\ frame'[p].stage = "discover_leagues"
    /\ frame'[p].calls = <<LeaguesEndpoint>>
    /\ op'[p] = "call" /\ endpoint'[p] = LeaguesEndpoint

\* discover_leagues returned the stored map to the tool of task p without
\* calling yahoo_api_call.
AnsweredFromMap(p) ==
    /\ \A i \in 1..Len(frame'[p].calls) : frame'[p].calls[i] # LeaguesEndpoint
    /\ frame'[p].tool = "ff_get_leagues" =>
          /\ pc'[p] = "done"
          /\ result'[p] = LeaguesResult(LEAGUES_CACHE)
    /\ frame'[p].tool = "ff_get_league_info" =>
          IF HasKey(LEAGUES_CACHE, frame'[p].args.league_key)
          THEN frame'[p].league = Item(LEAGUES_CACHE, frame'[p].args.league_key)
          ELSE pc'[p] = "failed" /\ result'[p].exc = "ToolError"

\* What a discover_leagues call does by the map stored when it starts.
StartsByMap ==
    \A p \in Procs : DiscoverStarts(p) =>
        IF LEAGUES_CACHE # << >>
        THEN AnsweredFromMap(p) /\ LEAGUES_CACHE' = LEAGUES_CACHE
        ELSE DiscoveryCalled(p)

\* C26: discover_leagues memoizes only non-empty results.  A call that
\* returns a non-empty map returns the stored one; from then on the stored
\* map stays what it is, and every call started later returns it without
\* invoking yahoo_api_call.  A call started while the stored map is empty
\* invokes yahoo_api_call.
C26_Memoized ==
    [][/\ LEAGUES_CACHE # << >> => LEAGUES_CACHE' = LEAGUES_CACHE
       /\ StartsByMap]_vars

\* What a call does at its start, in every step.
StartsByMapAlways == [][StartsByMap]_vars

\* Task p runs ff_clear_cache in this step.
ClearRuns(p) == pc[p] = "idle" /\ op'[p] = "clear_tool"

\* No entry of the response cache holds a discovery payload.
DiscoveryUncached == LeaguesEndpoint \notin DOMAIN cache

\* C27: ff_clear_cache, with or without pattern, leaves LEAGUES_CACHE as it
\* is; with a league map discovered and the response cache cleared,
\* ff_get_leagues and ff_get_league_info answer from that map and make no
\* discovery request.
C27_ClearKeepsLeagues ==
    [][\A p \in Procs :
          /\ ClearRuns(p) => LEAGUES_CACHE' = LEAGUES_CACHE
          /\ DiscoverStarts(p) /\ LEAGUES_CACHE # << >> /\ DiscoveryUncached
                => /\ AnsweredFromMap(p)
                   /\ requests'[p] > 0 => endpoint'[p] # LeaguesEndpoint]_vars

\* A full clear has just run while a league map is stored and the other task
\* waits for a permit inside a tool; nothing is cached any more.
C27_Witness ==
    \E p \in Procs :
        /\ frame[p].tool = "ff_clear_cache" /\ pc[p] = "done"
        /\ frame[p].pattern = NoPattern
        /\ LEAGUES_CACHE # << >>
        /\ DOMAIN cache = {}
        /\ \E q \in Procs : frame[q].tool = "ff_get_league_info" /\ pc[q] = "acquire"

\* The call of yahoo_api_call inside discover_leagues has ended in task p and
\* the tool's code runs on in this step.
DiscoveryResumes(p) ==
    /\ frame[p].stage = "discover_leagues" /\ frame[p].tool \in DiscoveryTools
    /\ Completed(p)
    /\ frame'[p].stage # "discover_leagues"

\* The leagues that precede the first league of the payload that cannot be
\* parsed; none when the payload itself is no object.
ParsedBeforeError(data) ==
    IF ~IsObject(data) THEN {}
    ELSE LET leagues == Content(data, "users", "leagues")
         IN  { [key |-> leagues[i].league_key, name |-> leagues[i].name] :
                 i \in { n \in 1..Len(leagues) : \A j \in 1..n : IsObject(leagues[j]) } }

\* C28: when the call inside discover_leagues fails, the failure reaches the
\* caller and LEAGUES_CACHE stays as it is; when it succeeds with a malformed
\* payload, discover_leagues does not raise, and it stores exactly the leagues
\* parsed before the parse error; with none parsed, ff_get_leagues returns the
\* record with error "No active NFL leagues found".
C28_DiscoveryOutcomes ==
    [][\A p \in Procs : DiscoveryResumes(p) =>
          IF result[p].kind = "raise"
          THEN /\ result'[p] = result[p]
               /\ pc'[p] = "failed" /\ frame'[p].stage = "end"
               /\ LEAGUES_CACHE' = LEAGUES_CACHE
          ELSE /\ { LEAGUES_CACHE'[i] : i \in DOMAIN LEAGUES_CACHE' }
                     = ParsedBeforeError(result[p].value)
               /\ \A i, j \in DOMAIN LEAGUES_CACHE' :
                     LEAGUES_CACHE'[i].key = LEAGUES_CACHE'[j].key => i = j
               /\ frame[p].tool = "ff_get_leagues" =>
                     /\ pc'[p] = "done"
                     /\ result'[p] = LeaguesResult(LEAGUES_CACHE')
                     /\ LEAGUES_CACHE' = << >> =>
                           result'[p] = Return([error |-> "No active NFL leagues found"])]_vars

\* ff_get_leagues has returned the one league parsed before the parse error
\* of a payload with three.
C28_Witness ==
    \E p \in Procs :
        /\ frame[p].tool = "ff_get_leagues" /\ frame[p].stage = "end"
        /\ frame[p].calls = <<LeaguesEndpoint>>
        /\ pc[p] = "done"
        /\ Keys(LEAGUES_CACHE) = <<"461.l.2">>
        /\ result[p] = LeaguesResult(LEAGUES_CACHE)
        /\ LeaguesEndpoint \in DOMAIN cache
        /\ cache[LeaguesEndpoint].payload = BrokenLeagues

----------------------------------------------------------------------------
(* The player listings *)

\* The positions a listing can be asked for (line 935).
Positions == {"QB", "RB", "WR", "TE", "K", "DEF", "all"}

\* The ";position=" segments of an endpoint.
PositionSegments(e) ==
    { i \in 1..Len(e) : e[i] \in { "position=" \o q : q \in Positions } }

\* The listing endpoint the tool of task p has passed to yahoo_api_call.
ListingTools == {"ff_get_players", "ff_get_draft_rankings"}
Listed(p) ==
    /\ frame[p].tool \in ListingTools
    /\ frame[p].calls # << >>
    /\ frame[p].stage \in {"body", "get_draft_rankings", "end"}
ListingEndpoint(p) == frame[p].calls[Len(frame[p].calls)]

\* C29: a player listing asked for position "all" builds an endpoint with no
\* ";position=" segment, and asked for another position P an endpoint with
\* the one segment ";position=P"; so ff_get_players with position "all"
\* builds the endpoint that get_waiver_wire_players builds for the same
\* league and count with position "all" and sort "rank".
C29_PositionSegment ==
    \A p \in Procs : Listed(p) =>
        LET e == ListingEndpoint(p)
            args == frame[p].args
        IN  /\ IF args.position = "all" THEN PositionSegments(e) = {}
               ELSE \E i \in 1..Len(e) :
                       /\ PositionSegments(e) = {i}
                       /\ e[i] = "position=" \o args.position
            /\ frame[p].tool = "ff_get_players" /\ args.position = "all" =>
                  e = WaiverEndpoint(args.league_key, "all", "rank", args.count)

\* What holds of the helpers: get_draft_rankings and
\* get_waiver_wire_players leave the segment out for "all".
HelpersOmitAll ==
    /\ \A p \in Procs :
          Listed(p) /\ frame[p].tool = "ff_get_draft_rankings"
             /\ frame[p].args.position = "all"
          => PositionSegments(ListingEndpoint(p)) = {}
    /\ \A k \in LeagueKeys, P \in Positions :
          /\ PositionSegments(WaiverEndpoint(k, P, "rank", 1))
                = IF P = "all" THEN {} ELSE {3}
          /\ PositionSegments(RankingsEndpoint(k, P, 1))
                = IF P = "all" THEN {} ELSE {2}

\* ff_get_players has returned its result in task p.
PlayersReturned(p) ==
    /\ frame[p].tool = "ff_get_players" /\ frame[p].stage = "end"
    /\ pc[p] = "done" /\ result[p].kind = "return"

\* C30: in every result of ff_get_players the players list has at most
\* `count` entries and the "count" field is the number of entries of that
\* list, whatever the payload, also when it holds more than `count` players.
C30_CountMatchesList ==
    \A p \in Procs : PlayersReturned(p) =>
        /\ Len(result[p].value.players) <= frame[p].args.count
        /\ result[p].value.count = Len(result[p].value.players)

\* What holds of the result: the list is cut to `count` entries, and "count"
\* is the number of players parsed from the payload.
PlayersCut ==
    \A p \in Procs : PlayersReturned(p) =>
        /\ Len(result[p].value.players) <= frame[p].args.count
        /\ result[p].value.count >= Len(result[p].value.players)
        /\ result[p].value.count
              = Len(ParsePlayers(cache[ListingEndpoint(p)].payload))
           \/ ListingEndpoint(p) \notin DOMAIN cache

====
